---------------------------- MODULE Spec2Model ----------------------------
(***************************************************************************)
(* A model of the MLS group state machine of src/src/group.rs (struct      *)
(* Group and its operations).  Byte strings produced by the cipher suite   *)
(* are symbolic terms: a hash, MAC, signature or derived secret is a       *)
(* tagged tuple of its inputs, so two values are equal exactly when they   *)
(* were computed from equal inputs.  An Option<T> is a sequence of length  *)
(* 0 (None) or 1 (Some).  A Result<T, E> is a record [ok, err, val].       *)
(***************************************************************************)
EXTENDS Integers, Sequences, FiniteSets, TLC

\* ------------------------------------------------------------------ bounds
\* No commit is built for an epoch beyond MaxEpoch.
MaxEpoch == 2
\* The size of the system: its members and its messages (proposals,
\* ciphertexts) in flight are at most MaxLoad together.
MaxLoad == 3
\* No Add is proposed for a tree that already has MaxLeaves leaves.
MaxLeaves == 2
\* The leaves of the growing group.
MaxGrownLeaves == 3
\* The PSK lists that are enumerated have at most MaxPskIds ids.
MaxPskIds == 2
\* Each storage handle makes at most MaxCalls calls.
MaxCalls == 2
\* Only leaf RemoveTarget is ever proposed for removal.
RemoveTarget == 0
\* Epoch records are stored under the ids 0 .. MaxEpochId.
MaxEpochId == 1
\* One write inserts at most MaxBatch epoch records.
MaxBatch == 2
\* Trees built leaf by leaf have at most MaxTreeLeaves leaves.
MaxTreeLeaves == 3
\* At most MaxHashed calls compute parent hashes on one tree.
MaxHashed == 2
\* At most MaxBlanked nodes of one tree are blanked.
MaxBlanked == 1

\* The identities that own key packages; "A" creates the group.
Members == {"A", "B"}
Creator == "A"
\* The values a random draw can take (key generations, reuse guards).
Rand == {1}
\* The application payloads a member may send.
Payloads == {"hello"}

\* ------------------------------------------------------- options, results
NoneV == <<>>
Some(x) == <<x>>
IsSome(o) == Len(o) = 1
Get(o) == o[1]

\* An error is the tuple of its name and, for MissingProposal, the reference.
Ok(v) == [ok |-> TRUE, err |-> <<>>, val |-> <<v>>]
Err(e) == [ok |-> FALSE, err |-> <<e>>, val |-> <<>>]
Val(r) == r.val[1]

\* The element of a singleton.  A value that is used more than once is
\* computed once as the element x of a singleton {v}: Only({e(x) : x \in {v}})
\* is e(v); where such bindings nest, the first to be computed is the outermost
\* and stands last.
Only(S) == CHOOSE r \in S : TRUE

\* -------------------------------------------------- cipher suite (symbolic)
Hash(x) == <<"H", x>>
Hmac(key, data) == <<"MAC", key, data>>
Sign(id, msg) == <<"SIG", id, msg>>
Verify(cred, sig, msg) == sig = Sign(cred, msg)
\* AEAD: opening succeeds exactly under the key, nonce and aad of the sealing.
AeadEncrypt(key, pt, aad, nonce) == [key |-> key, nonce |-> nonce, aad |-> aad, pt |-> pt]
AeadDecrypt(key, ct, aad, nonce) ==
    IF ct.key = key /\ ct.aad = aad /\ ct.nonce = nonce THEN Ok(ct.pt) ELSE Err("CipherSuiteError")
\* HPKE: opening succeeds exactly with the secret key of the sealing public key.
HpkeSeal(kp, pt) == [to |-> <<"sk", <<"leaf", kp.id, kp.gen>>>>, pt |-> pt]
HpkeOpen(ct, sk) == IF ct.to = sk THEN Ok(ct.pt) ELSE Err("CipherSuiteError")

\* ------------------------------------------------------------ key packages
\* A key package of identity id; gen tells its key pair apart from the
\* identity's other key packages.  The credential is the identity.
\* The cipher suite of the groups of the model, and another one
CipherSuites == {"P256", "X25519"}
GroupSuite == "P256"
KeyPackage(id, gen) == [id |-> id, gen |-> gen, cipher_suite |-> GroupSuite]
\* The identity's initial key package made for the other cipher suite
KeyPackageFor(id, cipher_suite) == [KeyPackage(id, 0) EXCEPT !.cipher_suite = cipher_suite]
\* KeyPackageGeneration: the key package, its secret key and its hash.
KeyPackageGeneration(id, gen) ==
    [key_package |-> KeyPackage(id, gen),
     secret_key |-> <<"sk", <<"leaf", id, gen>>>>,
     key_package_hash |-> Hash(KeyPackage(id, gen))]
\* The key pair that draw r yields at an epoch: for an Update proposal
\* (use 1) or for the leaf of an update path (use 2).  Generation 0 is the
\* identity's initial key package.
FreshGen(epoch, r, use) == (epoch * Cardinality(Rand) + (r - 1)) * 2 + use

\* ------------------------------------------------------------ tree math
\* Left-balanced binary tree over n leaves in an array of 2n-1 nodes;
\* leaf i is node 2i.
RECURSIVE Pow2(_)
Pow2(k) == IF k = 0 THEN 1 ELSE 2 * Pow2(k - 1)
RECURSIVE Log2(_)
Log2(x) == IF x <= 1 THEN 0 ELSE 1 + Log2(x \div 2)
RECURSIVE Level(_)
Level(x) == IF x % 2 = 0 THEN 0 ELSE 1 + Level(x \div 2)
NodeWidth(n) == 2 * n - 1
Root(n) == Pow2(Log2(NodeWidth(n))) - 1
ParentStep(x) ==
    LET k == Level(x)
        b == (x \div Pow2(k + 1)) % 2
    IN IF b = 0 THEN x + Pow2(k) ELSE x - Pow2(k)
RECURSIVE ParentFrom(_, _)
ParentFrom(p, n) == IF p >= NodeWidth(n) THEN ParentFrom(ParentStep(p), n) ELSE p
Parent(x, n) == ParentFrom(ParentStep(x), n)
RECURSIVE DirectPath(_, _)
DirectPath(x, n) ==
    IF x = Root(n) THEN <<>> ELSE <<Parent(x, n)>> \o DirectPath(Parent(x, n), n)

\* ---------------------------------------------------------- ratchet tree
\* A tree is the sequence of its nodes; node x is element x + 1.
Blank == [t |-> "blank"]
LeafNode(kp) == [t |-> "leaf", key_package |-> kp]
ParentNode(pk, unmerged) == [t |-> "parent", public_key |-> pk, unmerged_leaves |-> unmerged]

NodeAt(tree, x) == tree[x + 1]
SetNode(tree, x, node) == [tree EXCEPT ![x + 1] = node]
leaf_count(tree) == (Len(tree) + 1) \div 2
LeafIndices(tree) == 0 .. (leaf_count(tree) - 1)
OccupiedLeaves(tree) == {i \in LeafIndices(tree) : NodeAt(tree, 2 * i).t = "leaf"}

RatchetTree_new(kp) == <<LeafNode(kp)>>

get_key_package(tree, leaf) ==
    IF leaf \in OccupiedLeaves(tree)
    THEN Ok(NodeAt(tree, 2 * leaf).key_package)
    ELSE Err("RatchetTreeError")

find_leaf(tree, kp) ==
    Only({ IF hits = {} THEN NoneV ELSE Some(CHOOSE i \in hits : \A j \in hits : i <= j)
          : hits \in {{i \in OccupiedLeaves(tree) : NodeAt(tree, 2 * i).key_package = kp}}})

tree_hash(tree) == <<"TH", tree>>
is_valid(tree, expected) == tree_hash(tree) = expected

update_leaf(tree, leaf, kp) ==
    IF leaf \in OccupiedLeaves(tree)
    THEN Ok(SetNode(tree, 2 * leaf, LeafNode(kp)))
    ELSE Err("RatchetTreeError")

\* The leaf a new member takes: the leftmost blank leaf, or a new leaf at
\* the right edge.
NextLeaf(tree) ==
    Only({ IF blanks = {} THEN leaf_count(tree)
      ELSE CHOOSE i \in blanks : \A j \in blanks : i <= j
          : blanks \in {LeafIndices(tree) \ OccupiedLeaves(tree)}})

add_node(tree, kp) ==
    Only({ Only({ Only({ Only({ [x1 \in 1 .. Len(wide) |->
          IF x1 - 1 = 2 * i THEN LeafNode(kp)
          ELSE IF (x1 - 1) \in onPath /\ wide[x1].t = "parent"
               THEN ParentNode(wide[x1].public_key, Append(wide[x1].unmerged_leaves, i))
               ELSE wide[x1]]
          : onPath \in {{path[k] : k \in 1 .. Len(path)}}})
          : path \in {DirectPath(2 * i, leaf_count(wide))}})
          : wide \in {IF i = leaf_count(tree) THEN tree \o <<Blank, Blank>> ELSE tree}})
          : i \in {NextLeaf(tree)}})

\* add_nodes: the tree after adding kps in order, and the leaves they took.
RECURSIVE add_nodes(_, _)
add_nodes(tree, kps) ==
    IF kps = <<>> THEN [tree |-> tree, added |-> <<>>]
    ELSE Only({ [tree |-> rest.tree, added |-> <<NextLeaf(tree)>> \o rest.added]
               : rest \in {add_nodes(add_node(tree, Head(kps)), Tail(kps))}})


\* ------------------------------------------------- update path, TreeKEM
\* Path secrets form a chain: position 0 belongs to the leaf, position k to
\* the k-th node of the sender's direct path; each is expanded from the one
\* below it.
RECURSIVE PathSecretAt(_, _)
PathSecretAt(seed, k) == IF k = 0 THEN <<"seed", seed>> ELSE <<"path", PathSecretAt(seed, k - 1)>>
RECURSIVE DeriveUp(_, _)
DeriveUp(ps, k) == IF k = 0 THEN ps ELSE <<"path", DeriveUp(ps, k - 1)>>
NodePublicKey(ps) == <<"pk", ps>>
NodeSecretKey(ps) == <<"sk", ps>>

\* TreeKemPrivate: the own leaf and the secret keys held for tree nodes.
TreeKemPrivate(self_index, keys) == [self_index |-> self_index, secret_keys |-> keys]
TreeKemPrivate_new(self_index, secret_key) ==
    TreeKemPrivate(self_index, {[node |-> 2 * self_index, key |-> secret_key]})

\* Position (1-based) in path of the first node that is also on other.
FirstCommon(path, other) ==
    Only({ IF on = {} THEN 0 ELSE CHOOSE k \in on : \A j \in on : k <= j
          : on \in {{k \in 1 .. Len(path) : \E j \in 1 .. Len(other) : other[j] = path[k]}}})

\* gen_update_path: a fresh leaf key package (generation gen) and a fresh
\* chain of path secrets for the committer's direct path.  Each path node carries its
\* public key and the path secret sealed to the co-path resolution (the
\* leaves of added_leaves excluded: they get theirs in the Welcome).
gen_update_path(tree, private, gen, added_leaves) ==
    Only({ Only({ Only({ Only({ Only({ [update_path |->
            [leaf_key_package |-> kpg.key_package,
             nodes |-> [k \in 1 .. Len(path) |->
                          [public_key |-> NodePublicKey(PathSecretAt(seed, k)),
                           sealed |-> PathSecretAt(seed, k),
                           excluded |-> added_leaves]]],
        secrets |->
            [private_key |->
                 TreeKemPrivate(me,
                     {[node |-> 2 * me, key |-> kpg.secret_key]}
                     \cup {[node |-> path[k], key |-> NodeSecretKey(PathSecretAt(seed, k))]
                           : k \in 1 .. Len(path)}),
             secret_path |-> [k \in 1 .. Len(path) |-> PathSecretAt(seed, k)],
             root_secret |-> PathSecretAt(seed, Len(path))]]
          : kpg \in {KeyPackageGeneration(id, gen)}})
          : path \in {DirectPath(2 * me, leaf_count(tree))}})
          : seed \in {<<id, gen>>}})
          : id \in {NodeAt(tree, 2 * me).key_package.id}})
          : me \in {private.self_index}})

\* get_common_path_secret: the path secret of the lowest node that the
\* committer's direct path shares with the direct path of leaf.
get_common_path_secret(upg, tree, leaf) ==
    Only({ IF k = 0 THEN NoneV ELSE Some(upg.secrets.secret_path[k])
          : k \in {FirstCommon(DirectPath(2 * upg.secrets.private_key.self_index, leaf_count(tree)),
                     DirectPath(2 * leaf, leaf_count(tree)))}})

\* refresh_private_key: a receiver opens the path secret sealed at the lowest
\* node it shares with the sender and derives the ones above it.
refresh_private_key(tree, private, leaf_update, sender, update_path, added_leaves) ==
    Only({ Only({ Only({ Only({ IF \/ me = sender
          \/ me \notin OccupiedLeaves(tree)
          \/ \E j \in 1 .. Len(added_leaves) : added_leaves[j] = me
          \/ k = 0
          \/ Len(update_path.nodes) # Len(spath)
       THEN Err("RatchetTreeError")
       ELSE Only({ Only({ Ok([private_key |->
                       TreeKemPrivate(me,
                           {[node |-> 2 * me, key |-> leafKey]}
                           \cup {e \in private.secret_keys :
                                   e.node # 2 * me /\ \A j \in 1 .. Len(spath) : spath[j] # e.node}
                           \cup {[node |-> spath[k + d], key |-> NodeSecretKey(DeriveUp(ps, d))]
                                 : d \in 0 .. top}),
                   secret_path |-> [d \in 1 .. (top + 1) |-> DeriveUp(ps, d - 1)],
                   root_secret |-> DeriveUp(ps, top)])
                  : top \in {Len(spath) - k}})
                  : ps \in {update_path.nodes[k].sealed}})
          : leafKey \in {IF IsSome(leaf_update) THEN Get(leaf_update).secret_key
         ELSE (CHOOSE e \in private.secret_keys : e.node = 2 * me).key}})
          : k \in {FirstCommon(spath, DirectPath(2 * me, leaf_count(tree)))}})
          : spath \in {DirectPath(2 * sender, leaf_count(tree))}})
          : me \in {private.self_index}})

\* new_from_secret: the private keys of a joiner, from its key package's
\* secret key and the path secret of the Welcome (if any).
TreeKemPrivate_new_from_secret(self_index, secret_key, signer_index, n, group_secrets) ==
    Only({ Only({ Only({ IF ~IsSome(group_secrets.path_secret) THEN Ok(TreeKemPrivate(self_index, leaf))
       ELSE IF k = 0 THEN Err("RatchetTreeError")
       ELSE Ok(TreeKemPrivate(self_index,
                  leaf \cup {[node |-> spath[k + d],
                              key |-> NodeSecretKey(DeriveUp(Get(group_secrets.path_secret), d))]
                             : d \in 0 .. (Len(spath) - k)}))
          : leaf \in {{[node |-> 2 * self_index, key |-> secret_key]}}})
          : k \in {FirstCommon(spath, DirectPath(2 * self_index, n))}})
          : spath \in {DirectPath(2 * signer_index, n)}})

apply_update_path(tree, sender, update_path) ==
    Only({ IF sender \notin OccupiedLeaves(tree) \/ Len(update_path.nodes) # Len(path)
       THEN Err("RatchetTreeError")
       ELSE Ok([x1 \in 1 .. Len(tree) |->
                  IF x1 - 1 = 2 * sender THEN LeafNode(update_path.leaf_key_package)
                  ELSE IF \E k \in 1 .. Len(path) : path[k] = x1 - 1
                       THEN ParentNode(
                                update_path.nodes[CHOOSE k \in 1 .. Len(path) : path[k] = x1 - 1].public_key,
                                <<>>)
                       ELSE tree[x1]])
          : path \in {DirectPath(2 * sender, leaf_count(tree))}})

\* ------------------------------------------------------------ key schedule
Extract(salt, ikm) == <<"extract", salt, ikm>>
ExpandWithLabel(secret, label, context) == <<"expand", secret, label, context>>
ZeroSecret == <<"zero">>

\* CommitSecret::from_update_path / from_tree_secrets: from the root path
\* secret, or zero when the commit has no path.
CommitSecret_from_update_path(upg) ==
    IF IsSome(upg) THEN <<"commit", Get(upg).secrets.root_secret>> ELSE ZeroSecret
CommitSecret_from_tree_secrets(secrets) ==
    IF IsSome(secrets) THEN <<"commit", Get(secrets).root_secret>> ELSE ZeroSecret

\* The secrets of one epoch and the generations of the member's own
\* handshake and application ratchets.
EpochFromJoiner(joiner_secret, n, context) ==
    Only({ [init_secret |-> ExpandWithLabel(epoch_secret, "init", <<>>),
        sender_data_secret |-> ExpandWithLabel(epoch_secret, "sender data", <<>>),
        encryption_secret |-> ExpandWithLabel(epoch_secret, "encryption", <<>>),
        confirmation_key |-> ExpandWithLabel(epoch_secret, "confirm", <<>>),
        leaf_count |-> n,
        generation |-> [handshake |-> 0, application |-> 0]]
          : epoch_secret \in {ExpandWithLabel(Extract(joiner_secret, ZeroSecret), "epoch", context)}})

EpochKeySchedule_derive(init_secret, commit_secret, n, context) ==
    Only({ [key_schedule |-> EpochFromJoiner(joiner_secret, n, context),
        joiner_secret |-> joiner_secret]
          : joiner_secret \in {Extract(init_secret, commit_secret)}})
EpochKeySchedule_evolved_from(ks, commit_secret, n, context) ==
    EpochKeySchedule_derive(ks.init_secret, commit_secret, n, context)
EpochKeySchedule_new_joiner(joiner_secret, n, context) ==
    EpochFromJoiner(joiner_secret, n, context)

\* The secrets of a key schedule, without its ratchet generations.
EpochSecrets(ks) == [ks EXCEPT !.generation = [handshake |-> 0, application |-> 0]]

RatchetKey(ks, leaf, key_type, generation) ==
    [key |-> <<"key", ks.encryption_secret, leaf, key_type, generation>>,
     nonce |-> <<"nonce", ks.encryption_secret, leaf, key_type, generation>>,
     generation |-> generation]
\* get_encryption_key: the key of the own ratchet's current generation; the
\* ratchet advances.
get_encryption_key(ks, self_index, key_type) ==
    [key |-> RatchetKey(ks, self_index, key_type, ks.generation[key_type]),
     key_schedule |-> [ks EXCEPT !.generation[key_type] = @ + 1]]
get_decryption_key(ks, sender, generation, key_type) ==
    IF sender < ks.leaf_count THEN Ok(RatchetKey(ks, sender, key_type, generation))
    ELSE Err("EpochError")
reuse_safe_nonce(key, reuse_guard) == <<"guarded", key.nonce, reuse_guard>>
get_sender_data_params(ks, ciphertext) ==
    [key |-> <<"sender key", ks.sender_data_secret, ciphertext>>,
     nonce |-> <<"sender nonce", ks.sender_data_secret, ciphertext>>]

WelcomeSecret_from_joiner_secret(joiner_secret) == ExpandWithLabel(joiner_secret, "welcome", <<>>)
WelcomeSecret_encrypt(ws, data) == AeadEncrypt(ws, data, <<>>, <<>>)
WelcomeSecret_decrypt(ws, ct) == AeadDecrypt(ws, ct, <<>>, <<>>)

\* ------------------------------------------------------- transcript hashes
InterimTranscriptHash_new == <<>>
get_confirmed_transcript_hash(interim, commit_content) == <<"confirmed", interim, commit_content>>
get_interim_transcript_hash(confirmed, confirmation_tag) == <<"interim", confirmed, confirmation_tag>>

\* ---------------------------------------------------------------- framing
GroupId == "g"
Application(data) == [type |-> "application", data |-> data]
ProposalContent(p) == [type |-> "proposal", proposal |-> p]
CommitContent(c) == [type |-> "commit", commit |-> c]
\* ContentType::from(&content)
ContentType(content) == content.type
\* KeyType of a content type (group.rs 913-916, 1014-1017)
KeyTypeOf(content_type) == IF content_type = "application" THEN "application" ELSE "handshake"

\* MLSPlaintext::signable_representation: the content and its framing with
\* the group context; the signature and the tags are not signed (the commit
\* is signed before its confirmation tag is attached, group.rs 721-746).
signable_representation(pt, context) ==
    <<"TBS", context, pt.group_id, pt.epoch, pt.sender, pt.content>>
\* MLSPlaintextCommitContent / MLSPlaintextCommitAuthData ::try_from
MLSPlaintextCommitContent(pt) ==
    IF pt.content.type = "commit"
    THEN Ok([group_id |-> pt.group_id, epoch |-> pt.epoch, sender |-> pt.sender,
             commit |-> pt.content.commit, signature |-> pt.signature])
    ELSE Err("CommitConversionError")
MLSPlaintextCommitAuthData(pt) ==
    IF pt.content.type = "commit" /\ IsSome(pt.confirmation_tag)
    THEN Ok([confirmation_tag |-> Get(pt.confirmation_tag)])
    ELSE Err("CommitConversionError")

\* -------------------------------------------------------------- proposals
AddProposal(kp) == [type |-> "add", key_package |-> kp]
UpdateProposal(kp) == [type |-> "update", key_package |-> kp]
RemoveProposal(leaf) == [type |-> "remove", to_remove |-> leaf]
is_add(p) == p.type = "add"
is_update(p) == p.type = "update"
is_remove(p) == p.type = "remove"

InlineProposal(p) == [proposal |-> p, inline |-> TRUE]
Reference(id) == [id |-> id, inline |-> FALSE]
PendingProposal(p, sender) == [proposal |-> p, sender |-> sender]

\* HashMap::insert
Insert(map, k, v) == (k :> v) @@ map
EmptyMap == <<>>

\* ------------------------------------------------------------------ Group
GroupContext_new_group(th) ==
    [group_id |-> GroupId, epoch |-> 0, tree_hash |-> th, confirmed_transcript_hash |-> <<>>]

\* Group::new
Group_new(kpg, r) ==
    Only({ Only({ [context |-> context,
       public_tree |-> public_tree,
       private_tree |-> TreeKemPrivate_new(0, kpg.secret_key),
       key_schedule |-> EpochKeySchedule_derive(<<"init", r>>, <<>>, 1, context).key_schedule,
       interim_transcript_hash |-> InterimTranscriptHash_new,
       proposals |-> EmptyMap,
       pending_updates |-> EmptyMap,
       cipher_suite |-> kpg.key_package.cipher_suite]
          : context \in {GroupContext_new_group(tree_hash(public_tree))}})
          : public_tree \in {RatchetTree_new(kpg.key_package)}})

\* A faulty variant: a reference that is not in the cache is passed over.
RECURSIVE fetch_proposals_skips_missing(_, _, _)
fetch_proposals_skips_missing(g, proposals, sender) ==
    IF proposals = <<>> THEN Ok(<<>>)
    ELSE Only({ Only({ IF ~p.inline /\ p.id \notin DOMAIN g.proposals THEN rest
              ELSE Ok(<<IF p.inline THEN PendingProposal(p.proposal, sender)
                        ELSE g.proposals[p.id]>> \o Val(rest))
                    : rest \in {fetch_proposals_skips_missing(g, Tail(proposals), sender)}})
               : p \in {Head(proposals)}})

\* A faulty variant: a proposal taken from the cache is attributed to the
\* sender of the commit, as one given by value is.
RECURSIVE fetch_proposals_by_committer(_, _, _)
fetch_proposals_by_committer(g, proposals, sender) ==
    IF proposals = <<>> THEN Ok(<<>>)
    ELSE Only({ IF ~p.inline /\ p.id \notin DOMAIN g.proposals
         THEN [ok |-> FALSE, err |-> <<"MissingProposal", p.id>>, val |-> <<>>]
         ELSE Only({ IF ~rest.ok THEN rest
              ELSE Ok(<<IF p.inline THEN PendingProposal(p.proposal, sender)
                        ELSE PendingProposal(g.proposals[p.id].proposal, sender)>> \o Val(rest))
                    : rest \in {fetch_proposals_by_committer(g, Tail(proposals), sender)}})
               : p \in {Head(proposals)}})

\* Group::fetch_proposals: the proposals of a commit, references resolved in
\* the cache; the first missing reference is the error.
RECURSIVE fetch_proposals(_, _, _)
fetch_proposals(g, proposals, sender) ==
    IF proposals = <<>> THEN Ok(<<>>)
    ELSE Only({ IF ~p.inline /\ p.id \notin DOMAIN g.proposals
         THEN [ok |-> FALSE, err |-> <<"MissingProposal", p.id>>, val |-> <<>>]
         ELSE Only({ IF ~rest.ok THEN rest
              ELSE Ok(<<IF p.inline THEN PendingProposal(p.proposal, sender)
                        ELSE g.proposals[p.id]>> \o Val(rest))
                    : rest \in {fetch_proposals(g, Tail(proposals), sender)}})
               : p \in {Head(proposals)}})

\* group.rs 548-562: the updates of the list, applied in list order, each to
\* the leaf of its sender; leaf_update is the last whose key package is one
\* of the pending updates.
RECURSIVE apply_updates(_, _, _, _)
apply_updates(g, tree, leaf_update, proposals) ==
    IF proposals = <<>> THEN Ok([public_tree |-> tree, leaf_update |-> leaf_update])
    ELSE Only({ IF ~is_update(p.proposal) THEN apply_updates(g, tree, leaf_update, Tail(proposals))
         ELSE Only({ Only({ IF ~t.ok THEN t
              ELSE apply_updates(g, Val(t),
                       IF h \in DOMAIN g.pending_updates THEN Some(g.pending_updates[h])
                       ELSE leaf_update,
                       Tail(proposals))
                    : h \in {Hash(p.proposal.key_package)}})
                    : t \in {update_leaf(tree, p.sender, p.proposal.key_package)}})
               : p \in {Head(proposals)}})

\* group.rs 567-570
AddsOf(proposals) ==
    LET F[k \in 0 .. Len(proposals)] ==
          IF k = 0 THEN <<>>
          ELSE IF is_add(proposals[k].proposal)
               THEN Append(F[k - 1], proposals[k].proposal.key_package)
               ELSE F[k - 1]
    IN F[Len(proposals)]

\* A faulty variant: Updates and Removes do not ask for a path.
path_update_required_only_when_empty(proposals) == proposals = <<>>

\* group.rs 575-579
path_update_required(proposals) ==
    LET has_update_or_remove ==
          \E k \in 1 .. Len(proposals) :
              is_update(proposals[k].proposal) \/ is_remove(proposals[k].proposal)
    IN proposals = <<>> \/ has_update_or_remove

\* Group::apply_proposals
apply_proposals(g, sender, proposals) ==
    Only({ IF ~fetched.ok THEN fetched
    ELSE Only({ IF ~updated.ok THEN updated
         ELSE Only({ Ok([public_tree |-> added.tree,
                  leaf_update |-> Val(updated).leaf_update,
                  added_leaves |-> added.added,
                  path_update_required |-> path_update_required(Val(fetched))])
                    : added \in {add_nodes(Val(updated).public_tree, AddsOf(Val(fetched)))}})
               : updated \in {apply_updates(g, g.public_tree, NoneV, Val(fetched))}})
          : fetched \in {fetch_proposals(g, proposals, sender)}})

\* Group::construct_mls_plaintext
construct_mls_plaintext(g, content, signer) ==
    Only({ [plaintext EXCEPT !.signature = Sign(signer, signable_representation(plaintext, g.context))]
          : plaintext \in {[group_id |-> g.context.group_id,
          epoch |-> g.context.epoch,
          sender |-> g.private_tree.self_index,
          content |-> content,
          signature |-> <<>>,
          confirmation_tag |-> NoneV]}})

\* The reference under which a proposal is cached (group.rs 598, 1094)
ProposalRef(plaintext) == Hash(plaintext)

\* Group::send_proposal: the group afterwards and the plaintext
send_proposal(g, proposal, signer) ==
    Only({ Only({ [group |-> [g EXCEPT !.proposals = Insert(@, ProposalRef(plaintext), pending_proposal)],
       plaintext |-> plaintext]
          : pending_proposal \in {PendingProposal(proposal, g.private_tree.self_index)}})
          : plaintext \in {construct_mls_plaintext(g, ProposalContent(proposal), signer)}})

\* Group::add_member_proposals: one Add per key package, or the error of
\* the first key package of another cipher suite
add_member_proposals(g, key_packages) ==
    IF \E k \in DOMAIN key_packages : key_packages[k].cipher_suite # g.cipher_suite
    THEN Err("CipherSuiteMismatch")
    ELSE Ok([k \in DOMAIN key_packages |-> AddProposal(key_packages[k])])

\* Group::update_proposal: the group afterwards and the proposal
update_proposal(g, id, r) ==
    Only({ [group |-> [g EXCEPT !.pending_updates = Insert(@, key_package.key_package_hash, key_package)],
       proposal |-> UpdateProposal(key_package.key_package)]
          : key_package \in {KeyPackageGeneration(id, FreshGen(g.context.epoch, r, 1))}})

\* A faulty variant: the path secret is left out of the GroupSecrets.
encrypt_group_secrets_without_path(g, provisional_tree, leaf_index, joiner_secret, update_path) ==
    Only({ IF ~key_package.ok THEN key_package
      ELSE Ok([key_package_hash |-> Hash(Val(key_package)),
               encrypted_group_secrets |->
                   HpkeSeal(Val(key_package),
                            [joiner_secret |-> joiner_secret, path_secret |-> NoneV])])
          : key_package \in {get_key_package(provisional_tree, leaf_index)}})

\* Group::encrypt_group_secrets
encrypt_group_secrets(g, provisional_tree, leaf_index, joiner_secret, update_path) ==
    Only({ Only({ IF ~IsSome(path_secret) /\ IsSome(update_path) THEN Err("InvalidTreeKemPrivateKey")
      ELSE IF ~key_package.ok THEN key_package
      ELSE Ok([key_package_hash |-> Hash(Val(key_package)),
               encrypted_group_secrets |->
                   HpkeSeal(Val(key_package),
                            [joiner_secret |-> joiner_secret, path_secret |-> path_secret])])
          : key_package \in {get_key_package(provisional_tree, leaf_index)}})
          : path_secret \in {IF IsSome(update_path)
         THEN get_common_path_secret(Get(update_path), provisional_tree, leaf_index)
         ELSE NoneV}})

\* group.rs 773-785: one entry per added leaf, the first error wins
RECURSIVE welcome_secrets(_, _, _, _, _)
welcome_secrets(g, provisional_tree, added_leaves, joiner_secret, update_path) ==
    IF added_leaves = <<>> THEN Ok(<<>>)
    ELSE Only({ IF ~one.ok THEN one
         ELSE Only({ IF ~rest.ok THEN rest
              ELSE Ok(<<Val(one)>> \o Val(rest))
                    : rest \in {welcome_secrets(g, provisional_tree, Tail(added_leaves),
                                   joiner_secret, update_path)}})
               : one \in {encrypt_group_secrets(g, provisional_tree, Head(added_leaves),
                                    joiner_secret, update_path)}})

\* group.rs 646-656: the references of the cache, in the order in which the
\* HashMap yields its keys, then the caller's proposals by value.
CommitProposalList(order, proposals) ==
    [k \in 1 .. Len(order) |-> Reference(order[k])]
    \o [k \in 1 .. Len(proposals) |-> InlineProposal(proposals[k])]

\* Group::commit_proposals.  order is the order in which self.proposals.keys()
\* yields the cache's keys, r the draw of the random number generator, signer
\* the identity of the key package generator.
commit_proposals(g, proposals, update_path, r, order, signer) ==
    Only({ Only({ IF ~applied.ok THEN applied
    ELSE IF Val(applied).path_update_required /\ ~update_path THEN Err("InvalidCommit")
    ELSE
    Only({ Only({ Only({ IF ~tree_applied.ok THEN tree_applied
    ELSE
    Only({ Only({ Only({ Only({ Only({ Only({ Only({ Only({ Only({ IF ~secrets.ok THEN secrets
    ELSE Ok([plaintext |-> [plaintext EXCEPT !.confirmation_tag = Some(confirmation_tag)],
             update_path_data |-> upg,
             welcome |->
                 IF Len(Val(secrets)) = 0 THEN NoneV
                 ELSE Some([cipher_suite |-> g.cipher_suite,
                            secrets |-> Val(secrets),
                            encrypted_group_info |->
                                WelcomeSecret_encrypt(
                                    WelcomeSecret_from_joiner_secret(new_key_schedule.joiner_secret),
                                    group_info)])])
          : secrets \in {welcome_secrets(g, public_tree, provisional_state.added_leaves,
                         new_key_schedule.joiner_secret, upg)}})
          : group_info \in {[unsigned EXCEPT !.signature = Sign(signer, <<"GroupInfo", unsigned>>)]}})
          : unsigned \in {[group_id |-> g.context.group_id,
          epoch |-> provisional_group_context.epoch,
          tree_hash |-> provisional_group_context.tree_hash,
          confirmed_transcript_hash |-> provisional_group_context.confirmed_transcript_hash,
          confirmation_tag |-> confirmation_tag,
          signer_index |-> g.private_tree.self_index,
          signature |-> <<>>]}})
          : confirmation_tag \in {Hmac(new_key_schedule.key_schedule.confirmation_key,
              provisional_group_context.confirmed_transcript_hash)}})
          : new_key_schedule \in {EpochKeySchedule_evolved_from(g.key_schedule, CommitSecret_from_update_path(upg),
                                       leaf_count(public_tree), provisional_group_context)}})
          : provisional_group_context \in {[g.context EXCEPT
            !.epoch = @ + 1,
            !.tree_hash = tree_hash(public_tree),
            !.confirmed_transcript_hash =
                get_confirmed_transcript_hash(g.interim_transcript_hash,
                                              Val(MLSPlaintextCommitContent(plaintext)))]}})
          : plaintext \in {construct_mls_plaintext(g, CommitContent(commit), signer)}})
          : commit \in {[proposals |-> list,
          path |-> IF update_path THEN Some(Get(upg).update_path) ELSE NoneV]}})
          : public_tree \in {Val(tree_applied)}})
          : tree_applied \in {IF update_path
         THEN apply_update_path(provisional_state.public_tree,
                                g.private_tree.self_index, Get(upg).update_path)
         ELSE Ok(provisional_state.public_tree)}})
          : upg \in {IF update_path
         THEN Some(gen_update_path(provisional_state.public_tree, g.private_tree,
                                   FreshGen(g.context.epoch, r, 2),
                                   provisional_state.added_leaves))
         ELSE NoneV}})
          : provisional_state \in {Val(applied)}})
          : applied \in {apply_proposals(g, g.private_tree.self_index, list)}})
          : list \in {CommitProposalList(order, proposals)}})

\* Group::process_commit: the state of the next epoch (GroupStateUpdate)
process_commit(g, sender, local_pending, commit_content, auth_data) ==
    Only({ IF ~applied.ok THEN applied
    ELSE IF Val(applied).path_update_required /\ ~IsSome(commit_content.commit.path)
    THEN Err("InvalidCommit")
    ELSE
    Only({ Only({ Only({ IF ~secrets.ok THEN secrets
    ELSE
    Only({ Only({ IF ~tree_applied.ok THEN tree_applied
    ELSE
    Only({ Only({ Only({ Only({ Ok([public_tree |-> public_tree,
          private_tree |-> IF IsSome(updated_secrets)
                           THEN Some(Get(updated_secrets).private_key) ELSE NoneV,
          key_schedule |-> new_epoch.key_schedule,
          confirmation_tag |-> Hmac(new_epoch.key_schedule.confirmation_key,
                                    provisional_group_context.confirmed_transcript_hash),
          interim_transcript_hash |->
              get_interim_transcript_hash(confirmed_transcript_hash,
                                          auth_data.confirmation_tag),
          group_context |-> provisional_group_context])
          : new_epoch \in {EpochKeySchedule_evolved_from(g.key_schedule,
             CommitSecret_from_tree_secrets(updated_secrets),
             leaf_count(public_tree), provisional_group_context)}})
          : provisional_group_context \in {[g.context EXCEPT !.epoch = @ + 1,
                           !.confirmed_transcript_hash = confirmed_transcript_hash,
                           !.tree_hash = tree_hash(public_tree)]}})
          : confirmed_transcript_hash \in {get_confirmed_transcript_hash(g.interim_transcript_hash, commit_content)}})
          : public_tree \in {Val(tree_applied)}})
          : tree_applied \in {IF IsSome(path)
         THEN apply_update_path(provisional_state.public_tree, sender, Get(path))
         ELSE Ok(provisional_state.public_tree)}})
          : updated_secrets \in {Val(secrets)}})
          : secrets \in {IF ~IsSome(path) THEN Ok(NoneV)
         ELSE IF IsSome(local_pending) THEN Ok(Some(Get(local_pending).secrets))
         ELSE Only({ IF refreshed.ok THEN Ok(Some(Val(refreshed))) ELSE refreshed
                    : refreshed \in {refresh_private_key(provisional_state.public_tree,
                       g.private_tree, provisional_state.leaf_update,
                       sender, Get(path), provisional_state.added_leaves)}})}})
          : path \in {commit_content.commit.path}})
          : provisional_state \in {Val(applied)}})
          : applied \in {apply_proposals(g, sender, commit_content.commit.proposals)}})

\* The outcome of a handler: its Result and the group it leaves behind.
Outcome(res, g) == [res |-> res, group |-> g]

\* Faulty variants of the epoch check: none at all, and one that lets the
\* messages of past epochs through.
WrongEpoch_unchecked(g, plaintext) == FALSE
WrongEpoch_future_only(g, plaintext) == plaintext.epoch > g.context.epoch

\* group.rs 1069: the epoch of the message is not the group's
WrongEpoch(g, plaintext) == plaintext.epoch # g.context.epoch

\* A faulty variant: the receiver notes itself as the sender of the proposal.
CacheProposal_own_sender(g, plaintext) ==
    [g EXCEPT !.proposals = Insert(@, ProposalRef(plaintext),
                                PendingProposal(plaintext.content.proposal,
                                                g.private_tree.self_index))]

\* group.rs 1093-1100: a received proposal is cached under its reference
CacheProposal(g, plaintext) ==
    [g EXCEPT !.proposals = Insert(@, ProposalRef(plaintext),
                                PendingProposal(plaintext.content.proposal, plaintext.sender))]

\* Faulty variants of the installation: the context stays behind; the caches
\* are kept.
InstallUpdate_stale_context(g, res) ==
    [g EXCEPT !.public_tree = res.public_tree,
              !.private_tree = IF IsSome(res.private_tree) THEN Get(res.private_tree) ELSE @,
              !.key_schedule = res.key_schedule,
              !.interim_transcript_hash = res.interim_transcript_hash,
              !.proposals = EmptyMap,
              !.pending_updates = EmptyMap]
InstallUpdate_keeps_caches(g, res) ==
    [g EXCEPT !.public_tree = res.public_tree,
              !.private_tree = IF IsSome(res.private_tree) THEN Get(res.private_tree) ELSE @,
              !.context = res.group_context,
              !.key_schedule = res.key_schedule,
              !.interim_transcript_hash = res.interim_transcript_hash]

\* A faulty variant: a commit without a path leaves the member with the
\* secret key of its leaf only.
InstallUpdate_forgets_path_keys(g, res) ==
    [g EXCEPT !.public_tree = res.public_tree,
              !.private_tree = IF IsSome(res.private_tree) THEN Get(res.private_tree)
                               ELSE TreeKemPrivate(@.self_index,
                                                   {k \in @.secret_keys : k.node = 2 * @.self_index}),
              !.context = res.group_context,
              !.key_schedule = res.key_schedule,
              !.interim_transcript_hash = res.interim_transcript_hash,
              !.proposals = EmptyMap,
              !.pending_updates = EmptyMap]

\* group.rs 1127-1140: the state of the new epoch replaces the current one
InstallUpdate(g, res) ==
    [g EXCEPT !.public_tree = res.public_tree,
              !.private_tree = IF IsSome(res.private_tree) THEN Get(res.private_tree) ELSE @,
              !.context = res.group_context,
              !.key_schedule = res.key_schedule,
              !.interim_transcript_hash = res.interim_transcript_hash,
              !.proposals = EmptyMap,
              !.pending_updates = EmptyMap]

\* A faulty variant: the new state is installed before the tag is compared.
ConfirmCommit_installs_first(g, plaintext, res) ==
    IF ~IsSome(plaintext.confirmation_tag) THEN Outcome(Err("InvalidConfirmationTag"), g)
    ELSE IF res.confirmation_tag # Get(plaintext.confirmation_tag)
    THEN Outcome(Err("InvalidConfirmationTag"),
                 [g EXCEPT !.public_tree = res.public_tree,
                           !.context = res.group_context,
                           !.key_schedule = res.key_schedule])
    ELSE Outcome(Ok(NoneV),
                 [g EXCEPT !.public_tree = res.public_tree,
                           !.private_tree = IF IsSome(res.private_tree)
                                            THEN Get(res.private_tree) ELSE @,
                           !.context = res.group_context,
                           !.key_schedule = res.key_schedule,
                           !.interim_transcript_hash = res.interim_transcript_hash,
                           !.proposals = EmptyMap,
                           !.pending_updates = EmptyMap])

\* A faulty variant: a commit with any confirmation tag is installed.
ConfirmCommit_any_tag(g, plaintext, res) ==
    IF ~IsSome(plaintext.confirmation_tag) THEN Outcome(Err("InvalidConfirmationTag"), g)
    ELSE Outcome(Ok(NoneV), InstallUpdate(g, res))

\* group.rs 1117-1142: the commit's confirmation tag decides
ConfirmCommit(g, plaintext, res) ==
    IF ~IsSome(plaintext.confirmation_tag) THEN Outcome(Err("InvalidConfirmationTag"), g)
    ELSE IF res.confirmation_tag # Get(plaintext.confirmation_tag)
    THEN Outcome(Err("InvalidConfirmationTag"), g)
    ELSE Outcome(Ok(NoneV), InstallUpdate(g, res))

\* Group::process_plaintext_internal
process_plaintext_internal(g, plaintext, local_pending) ==
    IF WrongEpoch(g, plaintext) THEN Outcome(Err("InvalidPlaintextEpoch"), g)
    ELSE
    Only({ IF ~sender_kp.ok THEN Outcome(sender_kp, g)
    ELSE IF ~Verify(Val(sender_kp).id, plaintext.signature,
                    signable_representation(plaintext, g.context))
    THEN Outcome(Err("InvalidSignature"), g)
    ELSE IF plaintext.content.type = "application"
    THEN Outcome(Ok(Some(plaintext.content.data)), g)
    ELSE IF plaintext.content.type = "proposal"
    THEN Outcome(Ok(NoneV), CacheProposal(g, plaintext))
    ELSE
    Only({ Only({ IF ~commit_content.ok THEN Outcome(commit_content, g)
    ELSE IF ~auth_data.ok THEN Outcome(auth_data, g)
    ELSE Only({ IF ~res.ok THEN Outcome(res, g)
         ELSE ConfirmCommit(g, plaintext, Val(res))
               : res \in {process_commit(g, plaintext.sender, local_pending,
                             Val(commit_content), Val(auth_data))}})
          : auth_data \in {MLSPlaintextCommitAuthData(plaintext)}})
          : commit_content \in {MLSPlaintextCommitContent(plaintext)}})
          : sender_kp \in {get_key_package(g.public_tree, plaintext.sender)}})

\* Group::process_plaintext
process_plaintext(g, plaintext) == process_plaintext_internal(g, plaintext, NoneV)

\* A faulty variant: the committer drops the secrets of its pending commit.
process_pending_commit_without_secrets(g, pending) ==
    process_plaintext_internal(g, pending.plaintext, NoneV)

\* A faulty variant: a pending commit of an earlier epoch is taken for one
\* of the current epoch.
process_pending_commit_of_any_epoch(g, pending) ==
    process_plaintext_internal(g, [pending.plaintext EXCEPT !.epoch = g.context.epoch],
                               pending.update_path_data)

\* Group::process_pending_commit
process_pending_commit(g, pending) ==
    process_plaintext_internal(g, pending.plaintext, pending.update_path_data)

\* Group::encrypt_plaintext: the group afterwards and the MLSCiphertext
encrypt_plaintext(g, r, plaintext) ==
    Only({ Only({ Only({ Only({ Only({ Only({ Only({ Only({ Only({ Only({ [group |-> [g EXCEPT !.key_schedule = taken.key_schedule],
       ciphertext |-> [group_id |-> g.context.group_id,
                       epoch |-> g.context.epoch,
                       content_type |-> "application",
                       authenticated_data |-> <<>>,
                       encrypted_sender_data |->
                           AeadEncrypt(params.key, sender_data, sender_data_aad, params.nonce),
                       ciphertext |-> ciphertext]]
          : params \in {get_sender_data_params(taken.key_schedule, ciphertext)}})
          : sender_data_aad \in {[group_id |-> g.context.group_id,
          epoch |-> g.context.epoch,
          content_type |-> content_type]}})
          : sender_data \in {[sender |-> plaintext.sender,
          generation |-> encryption_key.generation,
          reuse_guard |-> reuse_guard]}})
          : ciphertext \in {AeadEncrypt(encryption_key.key, ciphertext_content, aad,
                     reuse_safe_nonce(encryption_key, reuse_guard))}})
          : encryption_key \in {taken.key}})
          : taken \in {get_encryption_key(g.key_schedule, g.private_tree.self_index,
                            KeyTypeOf(content_type))}})
          : reuse_guard \in {r}})
          : aad \in {[group_id |-> plaintext.group_id,
          epoch |-> plaintext.epoch,
          content_type |-> content_type,
          authenticated_data |-> <<>>]}})
          : ciphertext_content \in {[content |-> plaintext.content,
          signature |-> plaintext.signature,
          confirmation_tag |-> NoneV,
          padding |-> <<>>]}})
          : content_type \in {ContentType(plaintext.content)}})

\* Group::encrypt_application_message
encrypt_application_message(g, r, message, signer) ==
    Only({ encrypt_plaintext(g, r, plaintext)
          : plaintext \in {construct_mls_plaintext(g, Application(message), signer)}})

\* Group::process_ciphertext
process_ciphertext(g, ciphertext) ==
    Only({ Only({ Only({ IF ~decrypted_sender.ok THEN Outcome(decrypted_sender, g)
    ELSE
    Only({ Only({ IF ~decryption_key.ok THEN Outcome(decryption_key, g)
    ELSE
    Only({ Only({ Only({ IF ~decrypted_content.ok THEN Outcome(decrypted_content, g)
    ELSE
    Only({ Only({ process_plaintext(g, plaintext)
          : plaintext \in {[group_id |-> ciphertext.group_id,
          epoch |-> ciphertext.epoch,
          sender |-> sender_data.sender,
          content |-> ciphertext_content.content,
          signature |-> ciphertext_content.signature,
          confirmation_tag |-> ciphertext_content.confirmation_tag]}})
          : ciphertext_content \in {Val(decrypted_content)}})
          : decrypted_content \in {AeadDecrypt(Val(decryption_key).key, ciphertext.ciphertext, aad, nonce)}})
          : nonce \in {reuse_safe_nonce(Val(decryption_key), sender_data.reuse_guard)}})
          : aad \in {[group_id |-> ciphertext.group_id,
          epoch |-> ciphertext.epoch,
          content_type |-> ciphertext.content_type,
          authenticated_data |-> <<>>]}})
          : decryption_key \in {get_decryption_key(g.key_schedule, sender_data.sender,
             sender_data.generation, KeyTypeOf(ciphertext.content_type))}})
          : sender_data \in {Val(decrypted_sender)}})
          : decrypted_sender \in {AeadDecrypt(params.key, ciphertext.encrypted_sender_data,
                     sender_data_aad, params.nonce)}})
          : sender_data_aad \in {[group_id |-> g.context.group_id,
          epoch |-> g.context.epoch,
          content_type |-> ciphertext.content_type]}})
          : params \in {get_sender_data_params(g.key_schedule, ciphertext.ciphertext)}})

\* A faulty variant: the joiner takes the epoch before the GroupInfo's.
GroupContext_from_previous_epoch(group_info) ==
    [group_id |-> group_info.group_id,
     epoch |-> group_info.epoch - 1,
     tree_hash |-> group_info.tree_hash,
     confirmed_transcript_hash |-> group_info.confirmed_transcript_hash]

\* GroupContext::from(&GroupInfo)
GroupContext_from(group_info) ==
    [group_id |-> group_info.group_id,
     epoch |-> group_info.epoch,
     tree_hash |-> group_info.tree_hash,
     confirmed_transcript_hash |-> group_info.confirmed_transcript_hash]

\* A faulty variant: the signature of the GroupInfo is not verified.
from_welcome_message_unverified(welcome, public_tree, key_package) ==
    Only({ IF found = {} THEN Err("WelcomeKeyPackageNotFound")
    ELSE
    Only({ Only({ IF ~decrypted_group_secrets.ok THEN decrypted_group_secrets
    ELSE
    Only({ Only({ IF ~decrypted_group_info.ok THEN decrypted_group_info
    ELSE
    Only({ Only({ IF ~sender_key_package.ok THEN sender_key_package
    ELSE IF ~is_valid(public_tree, group_info.tree_hash) THEN Err("InvalidRatchetTree")
    ELSE
    Only({ IF ~IsSome(self_index) THEN Err("InvalidRatchetTree")
    ELSE
    Only({ Only({ Only({ IF ~private_tree.ok THEN private_tree
    ELSE IF Hmac(key_schedule.confirmation_key, group_info.confirmed_transcript_hash)
            # group_info.confirmation_tag
    THEN Err("InvalidConfirmationTag")
    ELSE Ok([context |-> context,
             public_tree |-> public_tree,
             private_tree |-> Val(private_tree),
             key_schedule |-> key_schedule,
             interim_transcript_hash |->
                 get_interim_transcript_hash(group_info.confirmed_transcript_hash,
                                             group_info.confirmation_tag),
             proposals |-> EmptyMap,
             pending_updates |-> EmptyMap,
             cipher_suite |-> welcome.cipher_suite])
          : key_schedule \in {EpochKeySchedule_new_joiner(group_secrets.joiner_secret,
                                     leaf_count(public_tree), context)}})
          : private_tree \in {TreeKemPrivate_new_from_secret(Get(self_index), key_package.secret_key,
             group_info.signer_index, leaf_count(public_tree), group_secrets)}})
          : context \in {GroupContext_from(group_info)}})
          : self_index \in {find_leaf(public_tree, key_package.key_package)}})
          : sender_key_package \in {get_key_package(public_tree, group_info.signer_index)}})
          : group_info \in {Val(decrypted_group_info)}})
          : decrypted_group_info \in {WelcomeSecret_decrypt(WelcomeSecret_from_joiner_secret(group_secrets.joiner_secret),
                               welcome.encrypted_group_info)}})
          : group_secrets \in {Val(decrypted_group_secrets)}})
          : decrypted_group_secrets \in {HpkeOpen(encrypted_group_secrets.encrypted_group_secrets, key_package.secret_key)}})
          : encrypted_group_secrets \in {welcome.secrets[CHOOSE k \in found : \A j \in found : k <= j]}})
          : found \in {{k \in 1 .. Len(welcome.secrets) :
            welcome.secrets[k].key_package_hash = key_package.key_package_hash}}})

\* Group::from_welcome_message: the joiner's Group, or the error
from_welcome_message(welcome, public_tree, key_package) ==
    Only({ IF found = {} THEN Err("WelcomeKeyPackageNotFound")
    ELSE
    Only({ Only({ IF ~decrypted_group_secrets.ok THEN decrypted_group_secrets
    ELSE
    Only({ Only({ IF ~decrypted_group_info.ok THEN decrypted_group_info
    ELSE
    Only({ Only({ IF ~sender_key_package.ok THEN sender_key_package
    ELSE IF ~Verify(Val(sender_key_package).id, group_info.signature,
                    <<"GroupInfo", [group_info EXCEPT !.signature = <<>>]>>)
    THEN Err("InvalidSignature")
    ELSE IF ~is_valid(public_tree, group_info.tree_hash) THEN Err("InvalidRatchetTree")
    ELSE
    Only({ IF ~IsSome(self_index) THEN Err("InvalidRatchetTree")
    ELSE
    Only({ Only({ Only({ IF ~private_tree.ok THEN private_tree
    ELSE IF Hmac(key_schedule.confirmation_key, group_info.confirmed_transcript_hash)
            # group_info.confirmation_tag
    THEN Err("InvalidConfirmationTag")
    ELSE Ok([context |-> context,
             public_tree |-> public_tree,
             private_tree |-> Val(private_tree),
             key_schedule |-> key_schedule,
             interim_transcript_hash |->
                 get_interim_transcript_hash(group_info.confirmed_transcript_hash,
                                             group_info.confirmation_tag),
             proposals |-> EmptyMap,
             pending_updates |-> EmptyMap,
             cipher_suite |-> welcome.cipher_suite])
          : key_schedule \in {EpochKeySchedule_new_joiner(group_secrets.joiner_secret,
                                     leaf_count(public_tree), context)}})
          : private_tree \in {TreeKemPrivate_new_from_secret(Get(self_index), key_package.secret_key,
             group_info.signer_index, leaf_count(public_tree), group_secrets)}})
          : context \in {GroupContext_from(group_info)}})
          : self_index \in {find_leaf(public_tree, key_package.key_package)}})
          : sender_key_package \in {get_key_package(public_tree, group_info.signer_index)}})
          : group_info \in {Val(decrypted_group_info)}})
          : decrypted_group_info \in {WelcomeSecret_decrypt(WelcomeSecret_from_joiner_secret(group_secrets.joiner_secret),
                               welcome.encrypted_group_info)}})
          : group_secrets \in {Val(decrypted_group_secrets)}})
          : decrypted_group_secrets \in {HpkeOpen(encrypted_group_secrets.encrypted_group_secrets, key_package.secret_key)}})
          : encrypted_group_secrets \in {welcome.secrets[CHOOSE k \in found : \A j \in found : k <= j]}})
          : found \in {{k \in 1 .. Len(welcome.secrets) :
            welcome.secrets[k].key_package_hash = key_package.key_package_hash}}})


\* ============================================== group state storage (SQLite)
\* The database is its two tables: mls_group, one snapshot per group id, and
\* epoch, a set of rows with at most one row per (group_id, epoch_id).
\* Serialized data are terms of their own, apart from what they serialize.
GroupIds == {"g1", "g2"}
Bodies == {"x", "y"}
EpochIds == 0 .. MaxEpochId

\* Every statement goes to the engine, which may refuse it: refused names the
\* statement of a call that the engine refuses, "none" when it refuses none.
Statements == {"transaction", "upsert", "insert", "update", "delete", "commit"}
Refusals == {"none"} \cup Statements

\* bincode::serialize of a group state or an epoch record, which may fail
Serialize(record) ==
    IF record.serializable THEN Ok(<<"bincode", record.id, record.body>>)
    ELSE Err("DataConversionError")

StoredEpoch(id, data) == [id |-> id, data |-> data]
EpochRow(group_id, epoch) ==
    [group_id |-> group_id, epoch_id |-> epoch.id, epoch_data |-> epoch.data]
EmptyDb == [mls_group |-> [g \in GroupIds |-> NoneV], epoch |-> {}]

\* A variant for comparison: the upsert without its key
UpsertSnapshot_keyless(db, group_id, snapshot) ==
    [db EXCEPT !.mls_group = [g \in GroupIds |-> Some(snapshot)]]
\* INSERT INTO mls_group .. ON CONFLICT(group_id) DO UPDATE SET snapshot
UpsertSnapshot(db, group_id, snapshot) == [db EXCEPT !.mls_group[group_id] = Some(snapshot)]
\* INSERT INTO epoch: a second row for a (group_id, epoch_id) is refused
InsertEpoch(db, group_id, epoch, refused) ==
    IF refused = "insert" \/ \E row \in db.epoch : row.group_id = group_id /\ row.epoch_id = epoch.id
    THEN Err("SqlEngineError")
    ELSE Ok([db EXCEPT !.epoch = @ \cup {EpochRow(group_id, epoch)}])
\* UPDATE epoch SET epoch_data: no row with the key, no change
UpdateEpoch(db, group_id, epoch, refused) ==
    IF refused = "update" THEN Err("SqlEngineError")
    ELSE Ok([db EXCEPT !.epoch =
               {IF row.group_id = group_id /\ row.epoch_id = epoch.id
                THEN EpochRow(group_id, epoch) ELSE row : row \in @}])
\* A variant for comparison: the prune takes the epoch at the bound as well
DeleteEpochsUnder_inclusive(db, group_id, delete_under) ==
    [db EXCEPT !.epoch = {row \in @ : ~(row.group_id = group_id /\ row.epoch_id <= delete_under)}]
\* DELETE FROM epoch WHERE group_id = ? AND epoch_id < ?
DeleteEpochsUnder(db, group_id, delete_under) ==
    [db EXCEPT !.epoch = {row \in @ : ~(row.group_id = group_id /\ row.epoch_id < delete_under)}]

\* try_for_each over an iterator of Result<StoredEpoch>: the statement for
\* each item in turn, up to the first item or statement that fails.
RECURSIVE insert_each(_, _, _, _)
insert_each(db, group_id, items, refused) ==
    IF items = <<>> THEN Ok(db)
    ELSE IF ~Head(items).ok THEN Err("SqlEngineError")
    ELSE Only({ IF ~done.ok THEN done ELSE insert_each(Val(done), group_id, Tail(items), refused)
               : done \in {InsertEpoch(db, group_id, Val(Head(items)), refused)}})
RECURSIVE update_each(_, _, _, _)
update_each(db, group_id, items, refused) ==
    IF items = <<>> THEN Ok(db)
    ELSE IF ~Head(items).ok THEN Err("SqlEngineError")
    ELSE Only({ IF ~done.ok THEN done ELSE update_each(Val(done), group_id, Tail(items), refused)
               : done \in {UpdateEpoch(db, group_id, Val(Head(items)), refused)}})

\* The transaction of update_group_state, statement by statement: how the
\* call ends, and the database as the statements so far have made it.
Transaction(db, group_id, group_snapshot, inserts, updates, delete_under, refused) ==
    IF refused = "transaction" \/ refused = "upsert" THEN [res |-> Err("SqlEngineError"), db |-> db]
    ELSE
    Only({ Only({ IF ~inserted.ok THEN [res |-> inserted, db |-> upserted]
    ELSE
    Only({ IF ~updated.ok THEN [res |-> updated, db |-> Val(inserted)]
    ELSE IF IsSome(delete_under) /\ refused = "delete"
    THEN [res |-> Err("SqlEngineError"), db |-> Val(updated)]
    ELSE
    Only({ IF refused = "commit" THEN [res |-> Err("SqlEngineError"), db |-> deleted]
           ELSE [res |-> Ok(<<>>), db |-> deleted]
          : deleted \in {IF IsSome(delete_under)
                         THEN DeleteEpochsUnder(Val(updated), group_id, Get(delete_under))
                         ELSE Val(updated)}})
          : updated \in {update_each(Val(inserted), group_id, updates, refused)}})
          : inserted \in {insert_each(upserted, group_id, inserts, refused)}})
          : upserted \in {UpsertSnapshot(db, group_id, group_snapshot)}})

\* A variant for comparison: every statement takes effect as it is executed
update_group_state_autocommit(db, group_id, group_snapshot, inserts, updates, delete_under, refused) ==
    Transaction(db, group_id, group_snapshot, inserts, updates, delete_under, refused)

\* SqLiteGroupStateStorage::update_group_state: the result and the database
\* afterwards.  A transaction that is dropped without commit is rolled back.
update_group_state(db, group_id, group_snapshot, inserts, updates, delete_under, refused) ==
    Only({ IF ran.res.ok THEN ran ELSE [res |-> ran.res, db |-> db]
          : ran \in {Transaction(db, group_id, group_snapshot, inserts, updates,
                                 delete_under, refused)}})

\* The iterator that write hands on: each record as StoredEpoch, or its error
StoredEpochs(records) ==
    [k \in 1 .. Len(records) |->
        Only({ IF data.ok THEN Ok(StoredEpoch(records[k].id, Val(data))) ELSE data
              : data \in {Serialize(records[k])}})]

\* GroupStateStorage::write
write(db, state, epoch_inserts, epoch_updates, delete_epoch_under, refused) ==
    Only({ IF ~snapshot_data.ok THEN [res |-> snapshot_data, db |-> db]
           ELSE update_group_state(db, state.id, Val(snapshot_data),
                                   StoredEpochs(epoch_inserts), StoredEpochs(epoch_updates),
                                   delete_epoch_under, refused)
          : snapshot_data \in {Serialize(state)}})

\* SqLiteGroupStateStorage::get_snapshot_data, get_epoch_data
get_snapshot_data(db, group_id) == db.mls_group[group_id]
get_epoch_data(db, group_id, epoch_id) ==
    Only({ IF rows = {} THEN NoneV ELSE Some((CHOOSE row \in rows : TRUE).epoch_data)
          : rows \in {{row \in db.epoch : row.group_id = group_id /\ row.epoch_id = epoch_id}}})

\* bincode::deserialize of stored data
Deserialize(data) ==
    IF Len(data) = 3 /\ data[1] = "bincode"
    THEN Ok([id |-> data[2], body |-> data[3], serializable |-> TRUE])
    ELSE Err("DataConversionError")
\* GroupStateStorage::state
state_of(db, group_id) ==
    Only({ IF ~IsSome(data) THEN Ok(NoneV)
           ELSE Only({ IF value.ok THEN Ok(Some(Val(value))) ELSE value
                      : value \in {Deserialize(Get(data))}})
          : data \in {get_snapshot_data(db, group_id)}})


\* ===================================== TreeKemPublic: nodes with parent hashes
\* A tree is the sequence of its nodes, node x being element x + 1, over the
\* same left-balanced array as above.  A leaf carries the source of its leaf
\* node, a parent its public key, its parent hash and its unmerged leaves.
KeyPackageSource == [kind |-> "KeyPackage"]
CommitSource(parent_hash) == [kind |-> "Commit", parent_hash |-> parent_hash]
TreeLeaf(name, source) == [t |-> "leaf", name |-> name, leaf_node_source |-> source]
TreeParent(public_key, parent_hash, unmerged_leaves) ==
    [t |-> "parent", public_key |-> public_key, parent_hash |-> parent_hash,
     unmerged_leaves |-> unmerged_leaves]

TreeKemPublic_new == <<>>
total_leaf_count(tree) == (Len(tree) + 1) \div 2
is_blank(tree, x) == NodeAt(tree, x).t = "blank"
non_empty_leaves(tree) ==
    {i \in 0 .. (total_leaf_count(tree) - 1) : NodeAt(tree, 2 * i).t = "leaf"}
non_empty_parents(tree) == {x \in 0 .. (Len(tree) - 1) : NodeAt(tree, x).t = "parent"}

\* tree_math: the children and the sibling of a node
LeftChild(x) == x - Pow2(Level(x) - 1)
RECURSIVE RightFrom(_, _)
RightFrom(r, n) == IF r >= NodeWidth(n) THEN RightFrom(LeftChild(r), n) ELSE r
RightChild(x, n) == RightFrom(x + Pow2(Level(x) - 1), n)
Sibling(x, n) ==
    \* of a node other than the root
    Only({ IF x < p THEN RightChild(p, n) ELSE LeftChild(p) : p \in {Parent(x, n)}})
\* The leaves under node x
SubtreeLeaves(x, n) ==
    {i \in 0 .. (n - 1) :
        2 * i = x \/ \E k \in DOMAIN DirectPath(2 * i, n) : DirectPath(2 * i, n)[k] = x}

\* NodeVec::get_resolution_index, as the set of its node indices
RECURSIVE get_resolution_index(_, _)
get_resolution_index(tree, x) ==
    Only({ IF node.t = "leaf" THEN {x}
           ELSE IF node.t = "parent" THEN {x} \cup {2 * l : l \in node.unmerged_leaves}
           ELSE IF Level(x) = 0 THEN {}
           ELSE get_resolution_index(tree, LeftChild(x))
                \cup get_resolution_index(tree, RightChild(x, total_leaf_count(tree)))
          : node \in {NodeAt(tree, x)}})
\* TreeKemPublic::unmerged_in_subtree: the unmerged leaves of p under c
unmerged_in_subtree(tree, p, c) ==
    NodeAt(tree, p).unmerged_leaves \cap SubtreeLeaves(c, total_leaf_count(tree))

\* NodeVec::filtered_direct_path_co_path from node x up: each ancestor with
\* its co-path child, the ancestors whose co-path child resolves to nothing
\* left out.
RECURSIVE FilteredFrom(_, _)
FilteredFrom(tree, x) ==
    Only({ IF x = Root(n) THEN <<>>
           ELSE (IF get_resolution_index(tree, Sibling(x, n)) = {} THEN <<>>
                 ELSE << <<Parent(x, n), Sibling(x, n)>> >>)
                \o FilteredFrom(tree, Parent(x, n))
          : n \in {total_leaf_count(tree)}})
filtered_direct_path_co_path(tree, index) == FilteredFrom(tree, 2 * index)
Rev(s) == [k \in 1 .. Len(s) |-> s[Len(s) + 1 - k]]

\* The tree hash of the subtree of x with the leaves in removed taken out
RECURSIVE tree_hash_without(_, _, _)
tree_hash_without(tree, x, removed) ==
    Only({ IF Level(x) = 0
           THEN Hash(<<"leaf", x, IF node.t = "leaf" /\ (x \div 2) \notin removed
                                  THEN node ELSE Blank>>)
           ELSE Hash(<<"parent", x,
                       IF node.t = "parent"
                       THEN [node EXCEPT !.unmerged_leaves = @ \ removed] ELSE Blank,
                       tree_hash_without(tree, LeftChild(x), removed),
                       tree_hash_without(tree, RightChild(x, total_leaf_count(tree)), removed)>>)
          : node \in {NodeAt(tree, x)}})
\* tree_hashes.original[x]: the tree hash of x without the unmerged leaves of
\* its parent
original_tree_hash(tree, x) ==
    Only({ tree_hash_without(tree, x,
               IF x # Root(n) /\ NodeAt(tree, Parent(x, n)).t = "parent"
               THEN NodeAt(tree, Parent(x, n)).unmerged_leaves ELSE {})
          : n \in {total_leaf_count(tree)}})

\* ParentHash::empty, ParentHash::new
ParentHash_empty == <<>>
ParentHash_new(public_key, parent_hash, original_sibling_tree_hash) ==
    Hash(<<"ParentHashInput", public_key, parent_hash, original_sibling_tree_hash>>)

\* Node::get_parent_hash
get_parent_hash(node) ==
    IF node.t = "parent" THEN Some(node.parent_hash)
    ELSE IF node.leaf_node_source.kind = "Commit" THEN Some(node.leaf_node_source.parent_hash)
    ELSE NoneV

\* TreeKemPublic::parent_hash
parent_hash(tree, parent_parent_hash, node_index, co_path_child_index) ==
    IF NodeAt(tree, node_index).t # "parent" THEN Err("NodeVecError")
    ELSE Ok(ParentHash_new(NodeAt(tree, node_index).public_key, parent_parent_hash,
                           original_tree_hash(tree, co_path_child_index)))

\* A variant for comparison: each hash is made from the empty parent hash
\* instead of the one computed for the parent above
RECURSIVE HashDown_unchained(_, _, _, _)
HashDown_unchained(tree, path, last_hash, changes) ==
    IF path = <<>> THEN [res |-> Ok(last_hash), changes |-> changes]
    ELSE
    Only({ Only({ IF ~calculated.ok THEN [res |-> calculated, changes |-> noted]
                  ELSE HashDown_unchained(tree, Tail(path), Val(calculated), noted)
                 : calculated \in {parent_hash(tree, ParentHash_empty, path[1][1], path[1][2])}})
          : noted \in {IF Level(path[1][1]) # 0
                       THEN changes \cup {<<path[1][1], last_hash>>} ELSE changes}})

\* The try_fold of parent_hash_for_leaf over the path from the root down:
\* changes collects what on_node_calculation is called with.
RECURSIVE HashDown(_, _, _, _)
HashDown(tree, path, last_hash, changes) ==
    IF path = <<>> THEN [res |-> Ok(last_hash), changes |-> changes]
    ELSE
    Only({ Only({ IF ~calculated.ok THEN [res |-> calculated, changes |-> noted]
                  ELSE HashDown(tree, Tail(path), Val(calculated), noted)
                 : calculated \in {parent_hash(tree, last_hash, path[1][1], path[1][2])}})
          : noted \in {IF Level(path[1][1]) # 0
                       THEN changes \cup {<<path[1][1], last_hash>>} ELSE changes}})

\* A variant for comparison: the fold runs from the leaf up
parent_hash_for_leaf_upward(tree, index) ==
    IF total_leaf_count(tree) <= 1 THEN [res |-> Ok(ParentHash_empty), changes |-> {}]
    ELSE HashDown(tree, filtered_direct_path_co_path(tree, index), ParentHash_empty, {})

\* TreeKemPublic::parent_hash_for_leaf
parent_hash_for_leaf(tree, index) ==
    IF total_leaf_count(tree) <= 1 THEN [res |-> Ok(ParentHash_empty), changes |-> {}]
    ELSE HashDown(tree, Rev(filtered_direct_path_co_path(tree, index)), ParentHash_empty, {})

\* The update path of a commit, as far as update_parent_hashes reads it
ValidatedUpdatePath(leaf_node) == [leaf_node |-> leaf_node, nodes |-> <<>>]

\* A variant for comparison: the sender's leaf is not looked at
update_parent_hashes_unverified(tree, index, update_path) ==
    Only({ IF ~leaf.res.ok THEN [res |-> leaf.res, tree |-> tree]
           ELSE [res |-> Ok(Val(leaf.res)),
                 tree |-> [x1 \in 1 .. Len(tree) |->
                            IF \E c \in leaf.changes : c[1] = x1 - 1
                            THEN [tree[x1] EXCEPT !.parent_hash =
                                     (CHOOSE c \in leaf.changes : c[1] = x1 - 1)[2]]
                            ELSE tree[x1]]]
          : leaf \in {parent_hash_for_leaf(tree, index)}})

\* TreeKemPublic::update_parent_hashes: the result and the tree afterwards
update_parent_hashes(tree, index, update_path) ==
    Only({ IF ~leaf.res.ok THEN [res |-> leaf.res, tree |-> tree]
    ELSE
    Only({ IF IsSome(update_path)
              /\ Get(update_path).leaf_node.leaf_node_source.kind = "Commit"
              /\ Val(leaf.res) # Get(update_path).leaf_node.leaf_node_source.parent_hash
           THEN [res |-> Err("ParentHashMismatch"), tree |-> changed]
           ELSE IF IsSome(update_path)
                   /\ Get(update_path).leaf_node.leaf_node_source.kind # "Commit"
           THEN [res |-> Err("ParentHashNotFound"), tree |-> changed]
           ELSE [res |-> Ok(Val(leaf.res)), tree |-> changed]
          : changed \in {[x1 \in 1 .. Len(tree) |->
                            IF \E c \in leaf.changes : c[1] = x1 - 1
                            THEN [tree[x1] EXCEPT !.parent_hash =
                                     (CHOOSE c \in leaf.changes : c[1] = x1 - 1)[2]]
                            ELSE tree[x1]]}})
          : leaf \in {parent_hash_for_leaf(tree, index)}})

\* The first non-blank ancestor p of a node with p's co-path child s, from
\* the parent p of the node and the node's sibling s; None past a blank root.
RECURSIVE FirstNonBlank(_, _, _)
FirstNonBlank(tree, p, s) ==
    IF ~is_blank(tree, p) THEN Some(<<p, s>>)
    ELSE IF p = Root(total_leaf_count(tree)) THEN NoneV
    ELSE FirstNonBlank(tree, Parent(p, total_leaf_count(tree)),
                       Sibling(p, total_leaf_count(tree)))

\* One chain of validate_parent_hashes, from node n: whether it ends without
\* a mismatch, and the nodes still to validate.
RECURSIVE Chain(_, _, _)
Chain(tree, n, nodes_to_validate) ==
    Only({ IF n = Root(num_leaves) THEN [ok |-> TRUE, nodes_to_validate |-> nodes_to_validate]
    ELSE
    Only({ IF ~IsSome(found) THEN [ok |-> TRUE, nodes_to_validate |-> nodes_to_validate]
    ELSE
    Only({ Only({
           IF get_parent_hash(NodeAt(tree, n))
                 # Some(Val(parent_hash(tree, NodeAt(tree, p).parent_hash, p, s)))
           THEN [ok |-> TRUE, nodes_to_validate |-> nodes_to_validate]
           ELSE Only({ IF /\ n \in get_resolution_index(tree, c)
                          /\ get_resolution_index(tree, c) \ {n}
                               = {2 * l : l \in unmerged_in_subtree(tree, p, c)}
                          /\ p \in nodes_to_validate
                       THEN Chain(tree, p, nodes_to_validate \ {p})
                       ELSE [ok |-> FALSE, nodes_to_validate |-> nodes_to_validate]
                      : c \in {Sibling(s, num_leaves)}})
          : s \in {Get(found)[2]}}) : p \in {Get(found)[1]}})
          : found \in {FirstNonBlank(tree, Parent(n, num_leaves), Sibling(n, num_leaves))}})
          : num_leaves \in {total_leaf_count(tree)}})

\* A faulty variant of one iteration: after a link that holds, the walk
\* stays at n.
ChainStep_stays(tree, n, nodes_to_validate) ==
    Only({ Only({ IF ~IsSome(found)
           THEN [next |-> "return", ok |-> TRUE, n |-> n, nodes_to_validate |-> nodes_to_validate]
           ELSE Only({ Only({ Only({
                IF ~IsSome(get_parent_hash(NodeAt(tree, p))) \/ is_blank(tree, n)
                THEN [next |-> "continue", ok |-> TRUE, n |-> n, nodes_to_validate |-> nodes_to_validate]
                ELSE IF get_parent_hash(NodeAt(tree, n))
                          # Some(Val(parent_hash(tree, NodeAt(tree, p).parent_hash, p, s)))
                THEN [next |-> "return", ok |-> TRUE, n |-> n, nodes_to_validate |-> nodes_to_validate]
                ELSE IF /\ n \in get_resolution_index(tree, c)
                        /\ get_resolution_index(tree, c) \ {n}
                             = {2 * l : l \in unmerged_in_subtree(tree, p, c)}
                        /\ p \in nodes_to_validate
                THEN [next |-> "continue", ok |-> TRUE, n |-> n,
                      nodes_to_validate |-> nodes_to_validate \ {p}]
                ELSE [next |-> "return", ok |-> FALSE, n |-> n, nodes_to_validate |-> nodes_to_validate]
                : c \in {Sibling(s, num_leaves)}})
                : s \in {Get(found)[2]}}) : p \in {Get(found)[1]}})
          : found \in {FirstNonBlank(tree, Parent(n, num_leaves), Sibling(n, num_leaves))}})
          : num_leaves \in {total_leaf_count(tree)}})

\* One iteration of the while loop of validate_parent_hashes at a node n
\* other than the root: the closure returns (Ok or ParentHashMismatch), or
\* the loop goes on, at n again when the parent hash of p or the node n is
\* missing, at p when the link from n to p holds.
ChainStep(tree, n, nodes_to_validate) ==
    Only({ Only({ IF ~IsSome(found)
           THEN [next |-> "return", ok |-> TRUE, n |-> n, nodes_to_validate |-> nodes_to_validate]
           ELSE Only({ Only({ Only({
                IF ~IsSome(get_parent_hash(NodeAt(tree, p))) \/ is_blank(tree, n)
                THEN [next |-> "continue", ok |-> TRUE, n |-> n, nodes_to_validate |-> nodes_to_validate]
                ELSE IF get_parent_hash(NodeAt(tree, n))
                          # Some(Val(parent_hash(tree, NodeAt(tree, p).parent_hash, p, s)))
                THEN [next |-> "return", ok |-> TRUE, n |-> n, nodes_to_validate |-> nodes_to_validate]
                ELSE IF /\ n \in get_resolution_index(tree, c)
                        /\ get_resolution_index(tree, c) \ {n}
                             = {2 * l : l \in unmerged_in_subtree(tree, p, c)}
                        /\ p \in nodes_to_validate
                THEN [next |-> "continue", ok |-> TRUE, n |-> p,
                      nodes_to_validate |-> nodes_to_validate \ {p}]
                ELSE [next |-> "return", ok |-> FALSE, n |-> n, nodes_to_validate |-> nodes_to_validate]
                : c \in {Sibling(s, num_leaves)}})
                : s \in {Get(found)[2]}}) : p \in {Get(found)[1]}})
          : found \in {FirstNonBlank(tree, Parent(n, num_leaves), Sibling(n, num_leaves))}})
          : num_leaves \in {total_leaf_count(tree)}})

\* The while loop from node n, run for at most `iterations` iterations:
\* how it ends in that many, if it does
RECURSIVE Walk(_, _, _, _)
Walk(tree, n, nodes_to_validate, iterations) ==
    IF n = Root(total_leaf_count(tree))
    THEN Some([ok |-> TRUE, nodes_to_validate |-> nodes_to_validate])
    ELSE IF iterations = 0 THEN NoneV
    ELSE Only({ IF step.next = "return"
                THEN Some([ok |-> step.ok, nodes_to_validate |-> step.nodes_to_validate])
                ELSE Walk(tree, step.n, step.nodes_to_validate, iterations - 1)
                : step \in {ChainStep(tree, n, nodes_to_validate)} })

\* The try_for_each over the non-empty leaves, in the order of their indices
RECURSIVE Chains(_, _, _)
Chains(tree, from, nodes_to_validate) ==
    IF from >= total_leaf_count(tree) THEN [ok |-> TRUE, nodes_to_validate |-> nodes_to_validate]
    ELSE IF from \notin non_empty_leaves(tree) THEN Chains(tree, from + 1, nodes_to_validate)
    ELSE Only({ IF ~done.ok THEN done ELSE Chains(tree, from + 1, done.nodes_to_validate)
               : done \in {Chain(tree, 2 * from, nodes_to_validate)}})

\* TreeKemPublic::validate_parent_hashes, of a tree with a leaf
validate_parent_hashes(tree) ==
    Only({ IF ~done.ok THEN Err("ParentHashMismatch")
           ELSE IF done.nodes_to_validate = {} THEN Ok(<<>>)
           ELSE Err("ParentHashMismatch")
          : done \in {Chains(tree, 0, non_empty_parents(tree))}})

\* TreeKemPublic::add_leaves for one leaf: the leftmost blank leaf, for which
\* a tree without one is extended by one level (the node vector always holds
\* a full tree), noted as unmerged in its non-blank ancestors.
add_leaf(tree, name) ==
    Only({ Only({ Only({ [x1 \in 1 .. Len(wide) |->
              IF x1 - 1 = 2 * i THEN TreeLeaf(name, KeyPackageSource)
              ELSE IF wide[x1].t = "parent"
                      /\ \E k \in DOMAIN path : path[k] = x1 - 1
                   THEN [wide[x1] EXCEPT !.unmerged_leaves = @ \cup {i}]
                   ELSE wide[x1]]
          : path \in {DirectPath(2 * i, total_leaf_count(wide))}})
          : wide \in {IF 2 * i < Len(tree) THEN tree
                      ELSE IF tree = <<>> THEN <<Blank>>
                      ELSE tree \o [k \in 1 .. (Len(tree) + 1) |-> Blank]}})
          : i \in {Only({ IF blanks = {} THEN total_leaf_count(tree)
                          ELSE CHOOSE b \in blanks : \A o \in blanks : b <= o
                         : blanks \in {(0 .. (total_leaf_count(tree) - 1))
                                         \ non_empty_leaves(tree)}})}})
RECURSIVE add_leaves(_, _)
add_leaves(tree, names) ==
    IF names = <<>> THEN tree ELSE add_leaves(add_leaf(tree, Head(names)), Tail(names))

\* test_utils::test_parent_node: a parent with a key of its own, an empty
\* parent hash and the given unmerged leaves
test_parent_node(x, unmerged_leaves) == TreeParent(<<"pk", x>>, ParentHash_empty, unmerged_leaves)

\* test_utils::get_test_tree_fig_12; source is the source of the leaf nodes
\* that get_basic_test_node makes.
get_test_tree_fig_12(source) ==
    Only({ Only({ Only({ update_parent_hashes(first, 4, NoneV).tree
          : first \in {update_parent_hashes(parents, 0, NoneV).tree}})
          : parents \in {[x1 \in 1 .. Len(leaves) |->
                IF x1 - 1 = 1 THEN test_parent_node(1, {})
                ELSE IF x1 - 1 = 3 THEN test_parent_node(3, {3})
                ELSE IF x1 - 1 = 7 THEN test_parent_node(7, {3, 6})
                ELSE IF x1 - 1 = 9 THEN test_parent_node(9, {5})
                ELSE IF x1 - 1 = 11 THEN test_parent_node(11, {5, 6})
                ELSE IF leaves[x1].t = "leaf" THEN [leaves[x1] EXCEPT !.leaf_node_source = source]
                ELSE leaves[x1]]}})
          : leaves \in {add_leaves(TreeKemPublic_new, <<"A", "B", "C", "D", "E", "F", "G">>)}})


\* ============================================================ extensions
\* extension.rs. A serialized value is a sequence of fields: an integer
\* (u16, u32, u64) is one element, and a vector is its length followed by
\* its elements, as the u32 length prefix of ByteVec and DefVec.
CAPABILITIES_EXT_ID == 1
LIFETIME_EXT_ID == 2
KEY_ID_EXT_ID == 3

ExtensionTypes == {"CapabilitiesExt", "LifetimeExt", "KeyIdExt"}

\* MlsExtension::IDENTIFIER
IDENTIFIER(T) ==
    CASE T = "CapabilitiesExt" -> CAPABILITIES_EXT_ID
      [] T = "LifetimeExt" -> LIFETIME_EXT_ID
      [] T = "KeyIdExt" -> KEY_ID_EXT_ID

\* A length-prefixed vector
WriteVec(v) == <<Len(v)>> \o v

\* Reads a length-prefixed vector from the front of data
ReadVec(data) ==
    IF Len(data) = 0 \/ data[1] > Len(data) - 1
    THEN Err("TlsCodecError")
    ELSE Ok([v |-> SubSeq(data, 2, 1 + data[1]),
             rest |-> SubSeq(data, 2 + data[1], Len(data))])

\* Serialize::tls_serialize_detached of the three extension structures
tls_serialize_detached(T, ext) ==
    CASE T = "CapabilitiesExt" ->
           WriteVec(ext.protocol_versions) \o WriteVec(ext.cipher_suites) \o WriteVec(ext.extensions)
      [] T = "LifetimeExt" -> <<ext.not_before, ext.not_after>>
      [] T = "KeyIdExt" -> WriteVec(ext.identifier)

\* Deserialize::tls_deserialize of the three extension structures
tls_deserialize(T, data) ==
    CASE T = "CapabilitiesExt" ->
           Only({ IF ~a.ok THEN a
                  ELSE Only({ IF ~b.ok THEN b
                              ELSE Only({ IF ~c.ok THEN c
                                          ELSE Ok([protocol_versions |-> Val(a).v,
                                                   cipher_suites |-> Val(b).v,
                                                   extensions |-> Val(c).v])
                                          : c \in {ReadVec(Val(b).rest)} })
                              : b \in {ReadVec(Val(a).rest)} })
                  : a \in {ReadVec(data)} })
      [] T = "LifetimeExt" ->
           IF Len(data) < 2 THEN Err("TlsCodecError")
           ELSE Ok([not_before |-> data[1], not_after |-> data[2]])
      [] T = "KeyIdExt" ->
           Only({ IF ~a.ok THEN a ELSE Ok([identifier |-> Val(a).v])
                  : a \in {ReadVec(data)} })

\* MlsExtension::to_extension
to_extension(T, ext) ==
    [extension_id |-> IDENTIFIER(T), data |-> tls_serialize_detached(T, ext)]

\* MlsExtension::from_extension
from_extension(T, extension) ==
    IF extension.extension_id # IDENTIFIER(T)
    THEN Err("UnexpectedExtensionType")
    ELSE tls_deserialize(T, extension.data)

\* ExtensionList::new
ExtensionList_new == <<>>

\* The first entry of the list with the identifier, if any (Iterator::find)
FindExtension(list, id) ==
    IF \E k \in 1 .. Len(list) : list[k].extension_id = id
    THEN Some(CHOOSE k \in 1 .. Len(list) :
                  /\ list[k].extension_id = id
                  /\ \A j \in 1 .. (k - 1) : list[j].extension_id # id)
    ELSE NoneV

\* ExtensionList::get_extension::<T>
get_extension(list, T) ==
    Only({ IF IsSome(found)
           THEN Only({ IF de.ok THEN Ok(Some(Val(de))) ELSE de
                       : de \in {tls_deserialize(T, list[Get(found)].data)} })
           ELSE Ok(NoneV)
           : found \in {FindExtension(list, IDENTIFIER(T))} })

\* set_extension appending in every case
set_extension_pushing(list, T, ext) == Append(list, to_extension(T, ext))

\* ExtensionList::set_extension::<T>: the list after the call
set_extension(list, T, ext) ==
    Only({ IF IsSome(found)
           THEN [list EXCEPT ![Get(found)] = to_extension(T, ext)]
           ELSE Append(list, to_extension(T, ext))
           : found \in {FindExtension(list, IDENTIFIER(T))} })

\* The values the callers set
ExtensionValues(T) ==
    CASE T = "CapabilitiesExt" ->
           {[protocol_versions |-> <<1>>, cipher_suites |-> <<1, 2, 3, 4>>, extensions |-> <<1, 3, 2>>],
            [protocol_versions |-> <<1>>, cipher_suites |-> <<1, 2>>, extensions |-> <<4, 2, 3>>],
            [protocol_versions |-> <<>>, cipher_suites |-> <<>>, extensions |-> <<>>]}
      [] T = "LifetimeExt" ->
           {[not_before |-> 1, not_after |-> 2],
            [not_before |-> 1, not_after |-> 43],
            [not_before |-> 0, not_after |-> 0]}
      [] T = "KeyIdExt" ->
           {[identifier |-> <<>>], [identifier |-> <<0, 0>>], [identifier |-> <<2, 7>>]}

\* No set_extension call yet: the value last set for each type, the list
\* before the last call, and the type of the last call
NoCalls == [last |-> [T \in ExtensionTypes |-> NoneV], prev |-> <<>>, type |-> "none"]

\* ============================================================ lifetimes
\* The unsigned integers of LifetimeExt range up to 2^64, so the model
\* keeps a natural number as the sequence of its base-256 digits, least
\* significant first and without leading zeros, and computes on the digits.
RECURSIVE Norm(_)
Norm(a) ==
    IF a = <<>> THEN <<>>
    ELSE IF a[Len(a)] = 0 THEN Norm(SubSeq(a, 1, Len(a) - 1)) ELSE a

RECURSIVE Num(_)
Num(n) == IF n = 0 THEN <<>> ELSE <<n % 256>> \o Num(n \div 256)

Digit(a, i) == IF i <= Len(a) THEN a[i] ELSE 0

RECURSIVE AddFrom(_, _, _, _)
AddFrom(a, b, i, carry) ==
    IF i > Len(a) /\ i > Len(b)
    THEN Num(carry)
    ELSE <<(Digit(a, i) + Digit(b, i) + carry) % 256>>
         \o AddFrom(a, b, i + 1, (Digit(a, i) + Digit(b, i) + carry) \div 256)

NumAdd(a, b) == Norm(AddFrom(a, b, 1, 0))

RECURSIVE TimesDigit(_, _, _, _)
TimesDigit(a, x, i, carry) ==
    IF i > Len(a)
    THEN Num(carry)
    ELSE <<(a[i] * x + carry) % 256>> \o TimesDigit(a, x, i + 1, (a[i] * x + carry) \div 256)

RECURSIVE NumMul(_, _)
NumMul(a, b) ==
    IF b = <<>> THEN <<>>
    ELSE NumAdd(Norm(TimesDigit(a, b[1], 1, 0)),
                Norm(<<0>> \o NumMul(a, SubSeq(b, 2, Len(b)))))

RECURSIVE NumLeq(_, _)
NumLeq(a, b) ==
    IF Len(a) # Len(b) THEN Len(a) < Len(b)
    ELSE IF a = <<>> THEN TRUE
    ELSE IF a[Len(a)] # b[Len(b)] THEN a[Len(a)] < b[Len(b)]
    ELSE NumLeq(Norm(SubSeq(a, 1, Len(a) - 1)), Norm(SubSeq(b, 1, Len(b) - 1)))

\* The low bytes of a number: its value modulo 2^(8 * bytes)
Wrapped(a, bytes) == Norm(SubSeq(a, 1, IF Len(a) < bytes THEN Len(a) ELSE bytes))

\* An arithmetic overflow ends the call with a panic where overflow checks
\* are compiled in (debug builds) and wraps around where they are not
\* (release builds).
Panic == Err("attempt to do arithmetic with overflow")

\* The outcomes of an unsigned operation of the given width whose exact
\* result is a
Unsigned(a, bytes) ==
    IF Len(a) <= bytes THEN {Ok(a)} ELSE {Panic, Ok(Wrapped(a, bytes))}

\* A SystemTime is a number of whole seconds after UNIX_EPOCH, or lies
\* before it.
BeforeEpoch == [before_epoch |-> TRUE, secs |-> <<>>]
SinceEpoch(secs) == [before_epoch |-> FALSE, secs |-> secs]

\* SystemTime::duration_since(UNIX_EPOCH)?.as_secs()
duration_since_epoch(time) ==
    IF time.before_epoch THEN Err("SystemTimeError") ELSE Ok(time.secs)

\* LifetimeExt::seconds: its outcomes
seconds(s, from) ==
    Only({ IF ~start_time.ok THEN {start_time}
           ELSE { IF ~not_after.ok THEN not_after
                  ELSE Ok([not_before |-> Val(start_time), not_after |-> Val(not_after)])
                  : not_after \in Unsigned(NumAdd(Val(start_time), s), 8) }
           : start_time \in {duration_since_epoch(from)} })

\* LifetimeExt::days: its outcomes. The product is computed in u32, and
\* widened to u64 afterwards.
days(d, from) ==
    UNION { IF ~product.ok THEN {product} ELSE seconds(Val(product), from)
            : product \in Unsigned(NumMul(d, Num(86400)), 4) }

\* LifetimeExt::years: its outcomes
years(y, from) ==
    UNION { IF ~product.ok THEN {product} ELSE days(Val(product), from)
            : product \in Unsigned(NumMul(Num(365), y), 4) }

\* LifetimeExt::within_lifetime
within_lifetime(self, system_time) ==
    Only({ IF ~since_epoch.ok THEN since_epoch
           ELSE Ok(NumLeq(self.not_before, Val(since_epoch)) /\ NumLeq(Val(since_epoch), self.not_after))
           : since_epoch \in {duration_since_epoch(system_time)} })

\* The arguments of the calls: small ones, the largest ones, and the ones
\* on either side of 2^32 / 86400
DayCounts == {Num(0), Num(1), Num(49710), Num(49711), <<255, 255, 255, 255>>}
YearCounts == {Num(0), Num(1), Num(136), Num(137), Num(255)}
SystemTimes == {BeforeEpoch, SinceEpoch(Num(0)), SinceEpoch(Num(1)), SinceEpoch(Num(1667520000))}

\* No call yet
NoLifetime == [call |-> "none", arg |-> <<>>, from |-> BeforeEpoch, out |-> Err("none")]
NoLifetimeCheck == [time |-> BeforeEpoch, out |-> Err("none")]

\* ============================================================ pre-shared keys
\* psk.rs. A PreSharedKeyID names an external PSK of the secret store or
\* the resumption secret of an epoch.
ExternalPsk(id) == [type |-> "external", id |-> id, psk_nonce |-> "nonce"]
ResumptionPsk(psk_epoch) ==
    [type |-> "resumption", usage |-> "application", psk_group_id |-> "g1",
     psk_epoch |-> psk_epoch, psk_nonce |-> "nonce"]

\* The external id the store may hold, one that it never holds, and the
\* epoch the repository may hold
StoredPskIds == {"x1"}
UnknownPskId == "x0"
PskEpochs == {7}

\* KeyScheduleKdf::extract_size of the suite's hash
extract_size(cipher_suite) == IF cipher_suite = "P521" THEN 64 ELSE 32
Zeros(n) == [k \in 1 .. n |-> 0]
KdfExtract(salt, ikm) == <<"extract", salt, ikm>>
KdfExpandWithLabel(secret, label, context, len) == <<"expand", secret, label, context, len>>

\* PskStore::psk, and the get_epoch of the caller: a lookup finds the
\* entry, finds nothing, or fails.
StoreLookup(store, id) ==
    IF id \notin DOMAIN store \/ store[id] = "absent" THEN Ok(NoneV)
    ELSE IF store[id] = "present" THEN Ok(Some(<<"psk", id>>))
    ELSE Err("StoreError")

\* psk.rs 178-191: the PSK that an id names
ResolvePsk(secret_store, epochs, id) ==
    IF id.type = "external"
    THEN Only({ IF ~found.ok THEN Err("SecretStoreError")
                ELSE IF ~IsSome(Val(found)) THEN Err(<<"NoPskForId", id.id>>)
                ELSE Ok(Get(Val(found)))
                : found \in {StoreLookup(secret_store, id.id)} })
    ELSE Only({ IF ~found.ok THEN Err("EpochRepositoryError")
                ELSE IF ~IsSome(Val(found)) THEN Err(<<"EpochNotFound", id.psk_epoch>>)
                ELSE Ok(<<"resumption_secret", id.psk_epoch>>)
                : found \in {StoreLookup(epochs, id.psk_epoch)} })

\* psk.rs 192-205: one step of the fold
PskStep(cipher_suite, psk_secret_so_far, psk, id, index, count) ==
    Only({ KdfExtract(KdfExpandWithLabel(psk_extracted, "derived psk", label,
                                         extract_size(cipher_suite)),
                      psk_secret_so_far)
           : psk_extracted \in {KdfExtract(Zeros(extract_size(cipher_suite)), psk)},
             label \in {[id |-> id, index |-> index, count |-> count]} })

\* psk.rs 175-206: the try_fold over the ids in list order, from the id at
\* the (0-based) index on; the first error ends it.
RECURSIVE PskFold(_, _, _, _, _, _)
PskFold(cipher_suite, secret_store, epochs, psk_ids, index, psk_secret_so_far) ==
    IF index >= Len(psk_ids) THEN Ok(psk_secret_so_far)
    ELSE Only({ IF ~psk.ok THEN psk
                ELSE PskFold(cipher_suite, secret_store, epochs, psk_ids, index + 1,
                             PskStep(cipher_suite, psk_secret_so_far, Val(psk),
                                     psk_ids[index + 1], index, Len(psk_ids)))
                : psk \in {ResolvePsk(secret_store, epochs, psk_ids[index + 1])} })

\* A faulty variant: the number of ids is not looked at.
psk_secret_any_count(cipher_suite, secret_store, epochs, psk_ids) ==
    PskFold(cipher_suite, secret_store, epochs, psk_ids, 0, Zeros(extract_size(cipher_suite)))

\* psk_secret: the number of ids has to fit a u16
psk_secret(cipher_suite, secret_store, epochs, psk_ids) ==
    IF Len(psk_ids) >= 2 ^ 16
    THEN Err(<<"TooManyPskIds", Len(psk_ids)>>)
    ELSE PskFold(cipher_suite, secret_store, epochs, psk_ids, 0,
                 Zeros(extract_size(cipher_suite)))

\* The ids of the calls
PskIds ==
    {ExternalPsk(id) : id \in StoredPskIds \cup {UnknownPskId}} \cup {ResumptionPsk(e) : e \in PskEpochs}

\* The lists of the calls: every list of at most MaxPskIds ids, and the
\* lists of 65,535 and of 65,536 ids that start with a resumption id and go
\* on with the id that the store never holds
PskLists ==
    UNION {[1 .. n -> PskIds] : n \in 0 .. MaxPskIds}
    \cup {[k \in 1 .. n |-> IF k = 1 THEN first ELSE ExternalPsk(UnknownPskId)]
            : n \in {2 ^ 16 - 1, 2 ^ 16}, first \in {ResumptionPsk(e) : e \in PskEpochs}}

NoPskCall == [cipher_suite |-> "none", psk_ids |-> <<>>, out |-> Err("none")]
EmptyPskStore == [id \in StoredPskIds |-> "absent"]
NoPskEpochs == [e \in PskEpochs |-> "absent"]

\* ================================= storage handles that share one connection
\* SqLiteGroupStateStorage is Clone, and every clone holds the same
\* Arc<Mutex<Connection>>.  Each handle runs its calls on a thread of its own.
\* The connection is the mutex with the guard's holder, the database as it is
\* committed, and the working copy of the transaction that is open, if any.
Handles == {"h1", "h2"}
NewConnection == [owner |-> NoneV, db |-> EmptyDb, tx |-> NoneV]
\* What a statement that runs on the connection reads
View(c) == IF IsSome(c.tx) THEN Get(c.tx) ELSE c.db
\* What a statement that runs on the connection leaves
Changed(c, db) == IF IsSome(c.tx) THEN [c EXCEPT !.tx = Some(db)] ELSE [c EXCEPT !.db = db]

\* A variant for comparison: a mutex that is granted whoever holds it
lock_granted_always(c) == TRUE
\* self.connection.lock(): granted when no guard is alive
lock(c) == ~IsSome(c.owner)

\* A call of a handle: a write is the n-th of the writes below, a read names
\* its group and, for epoch, its epoch.
StorageCall(op, n, group_id, epoch_id) ==
    [op |-> op, n |-> n, group_id |-> group_id, epoch_id |-> epoch_id]
\* thr[t]: the call of handle t, where it stands in it (idle, lock, run, with
\* k the statement that is next), what the last call returned, and as history
\* how many transactions were committed when it returned (at), whether a
\* transaction was open when it was made (met) and the calls made so far.
NoThread ==
    [call |-> StorageCall("none", 0, "g1", 0), pc |-> "idle", k |-> 0, out |-> Ok(<<>>),
     at |-> 0, met |-> FALSE, calls |-> 0]
\* ============================================================ the system
\* groups[m]: the Group that identity m holds, if any.
\* pending: the PendingCommit that the last successful commit_proposals
\*   returned, if any, and the member that called it; its plaintext and
\*   Welcome are what that member sends out.
\* net, cnet: the proposal plaintexts and the ciphertexts sent so far.
\* conn: the connection that the storage handles share; thr[t]: the call that
\*   handle t is in; commits: the transactions committed so far (history).
\* hist[m]: how m reached its current epoch (history: by which call, with
\*   which message, from which state and with which keys in its cache).
\* applied[m]: the commits m has applied (history).
\* arrival[m]: the keys of m's proposal cache in the order of their first
\*   insertion (history; the HashMap itself does not keep it).
VARIABLES groups, pending, net, cnet, hist, applied, arrival, store, written, kem, kemlog,
          exts, extlog, life, lifecheck, pskstore, pskepochs, psklog, conn, thr, commits
vars == <<groups, pending, net, cnet, hist, applied, arrival>>
storage == <<store, written>>
kemvars == <<kem, kemlog>>
extvars == <<exts, extlog>>
lifevars == <<life, lifecheck>>
pskvars == <<pskstore, pskepochs, psklog>>
concvars == <<conn, thr, commits>>
libvars == <<extvars, lifevars, pskvars, concvars>>

Active(m) == IsSome(groups[m])
G(m) == Get(groups[m])
ActiveMembers == {m \in Members : Active(m)}

\* The fields two members of one epoch share.
Public(g) == [context |-> g.context,
              public_tree |-> g.public_tree,
              key_schedule |-> EpochSecrets(g.key_schedule),
              interim_transcript_hash |-> g.interim_transcript_hash]

Perms(S) == {f \in [1 .. Cardinality(S) -> S] : \A i, j \in 1 .. Cardinality(S) : f[i] = f[j] => i = j}

NoHist == [via |-> "none", msg |-> <<>>, pre |-> <<>>, cache |-> {}]

\* The log of a tree that nothing was done to
NewLog ==
    [origin |-> "new", hashed |-> 0, blanked |-> 0, phase |-> "build",
     covered |-> {}, merged |-> TRUE]

InitDraws == {1}
Init ==
    /\ \E r \in InitDraws :
         groups = [m \in Members |->
                     IF m = Creator THEN Some(Group_new(KeyPackageGeneration(m, 0), r)) ELSE NoneV]
    /\ pending = NoneV
    /\ net = {}
    /\ cnet = {}
    /\ hist = [m \in Members |-> IF m = Creator THEN [NoHist EXCEPT !.via = "new"] ELSE NoHist]
    /\ applied = [m \in Members |-> {}]
    /\ arrival = [m \in Members |-> <<>>]
    /\ store = EmptyDb
    /\ written = [g \in GroupIds |-> NoneV]
    /\ kem = TreeKemPublic_new
    /\ kemlog = NewLog
    /\ exts = ExtensionList_new
    /\ extlog = NoCalls
    /\ life = NoLifetime
    /\ lifecheck = NoLifetimeCheck
    /\ pskstore = EmptyPskStore
    /\ pskepochs = NoPskEpochs
    /\ psklog = NoPskCall
    /\ conn = NewConnection
    /\ thr = [t \in Handles |-> NoThread]
    /\ commits = <<>>

\* The proposals a member may be asked to send or commit.
AddCandidates(g) ==
    {AddProposal(KeyPackage(id, 0)) : id \in {x \in Members \ {Creator} :
                                                 leaf_count(g.public_tree) < MaxLeaves}}
\* Adds that the caller builds from a key package of either cipher suite
AnySuiteAdds(g) ==
    {AddProposal(KeyPackageFor(id, cipher_suite))
       : id \in {x \in Members \ {Creator} : leaf_count(g.public_tree) < MaxLeaves},
         cipher_suite \in CipherSuites}
\* Adds and the member's own Updates are sent as proposals.
SendCandidates(g) ==
    AddCandidates(g)
    \cup {UpdateProposal(g.pending_updates[h].key_package) : h \in DOMAIN g.pending_updates}
\* Adds and Removes are committed by value.
InlineCandidates(g) ==
    AddCandidates(g)
    \cup {RemoveProposal(i) : i \in LeafIndices(g.public_tree) \cap {RemoveTarget}}

NetFull == Cardinality(ActiveMembers) + Cardinality(net) + Cardinality(cnet) >= MaxLoad
\* Nothing is built for an epoch that no commit can end.
Open(m) == G(m).context.epoch < MaxEpoch

\* The cache's keys in arrival order, after a call that left cache `now`.
Arrived(seq, now) ==
    Only({ Only({ IF new = {} THEN kept ELSE Append(kept, CHOOSE k \in new : TRUE)
          : kept \in {SelectSeq(seq, LAMBDA k : k \in DOMAIN now)}})
          : new \in {DOMAIN now \ {seq[k] : k \in 1 .. Len(seq)}}})

\* What a call of a process_* handler by m leaves behind.  plaintext is the
\* MLSPlaintext the handler dispatched on, if it came that far.
Processed(op, m, plaintext, out) ==
    \E installed \in {out.res.ok /\ IsSome(plaintext) /\ Get(plaintext).content.type = "commit"} :
       /\ groups' = [groups EXCEPT ![m] = Some(out.group)]
       /\ hist' = IF installed
                  THEN [hist EXCEPT ![m] = [via |-> op, msg |-> plaintext,
                                            pre |-> Some(Public(G(m))),
                                            cache |-> DOMAIN G(m).proposals]]
                  ELSE hist
       /\ applied' = IF installed THEN [applied EXCEPT ![m] = @ \cup {Get(plaintext)}] ELSE applied
       /\ arrival' = [arrival EXCEPT ![m] = Arrived(@, out.group.proposals)]
       /\ UNCHANGED <<pending, net, cnet>>

SendProposal(m, proposal) ==
    /\ ~NetFull /\ Open(m)
    /\ \E sent \in {send_proposal(G(m), proposal, m)} :
          /\ groups' = [groups EXCEPT ![m] = Some(sent.group)]
          /\ net' = net \cup {sent.plaintext}
          /\ arrival' = [arrival EXCEPT ![m] = Arrived(@, sent.group.proposals)]
    /\ UNCHANGED <<pending, cnet, hist, applied>>

UpdateProposalCall(m, r) ==
    /\ Open(m)
    /\ groups' = [groups EXCEPT ![m] = Some(update_proposal(G(m), m, r).group)]
    /\ UNCHANGED <<pending, net, cnet, hist, applied, arrival>>

\* The orders in which the HashMap of g's cache may yield its keys.
KeyOrders(g) == Perms(DOMAIN g.proposals)

\* A faulty variant: the committer's group moves to the new epoch as the
\* commit is built.
CommitProposals_installs(m, proposals, update_path, r, order) ==
    /\ Open(m)
    /\ \E res \in {commit_proposals(G(m), proposals, update_path, r, order, m)} :
          /\ pending' = IF res.ok THEN Some([by |-> m, commit |-> Val(res)]) ELSE pending
          /\ groups' = IF res.ok
                       THEN [groups EXCEPT ![m] = Some(process_pending_commit(G(m), Val(res)).group)]
                       ELSE groups
    /\ UNCHANGED <<net, cnet, hist, applied, arrival>>

CommitProposals(m, proposals, update_path, r, order) ==
    /\ Open(m)
    /\ \E res \in {commit_proposals(G(m), proposals, update_path, r, order, m)} :
          pending' = IF res.ok THEN Some([by |-> m, commit |-> Val(res)]) ELSE pending
    /\ UNCHANGED <<groups, net, cnet, hist, applied, arrival>>

\* The forms in which a plaintext that was sent may reach a handler: as it
\* was sent, with another epoch field, with a forged signature, and, for a
\* commit, without or with another confirmation tag, or without its path
\* and signed again by its signer over one of the groups' contexts.
Resigned(q, signer, context) ==
    [q EXCEPT !.signature = Sign(signer, signable_representation(q, context))]
KnownContexts == {G(x).context : x \in ActiveMembers}
PlaintextForms(p) ==
    {p}
    \cup {[p EXCEPT !.epoch = e] : e \in {p.epoch - 1, p.epoch + 1} \cap (0 .. MaxEpoch)}
    \cup {[p EXCEPT !.signature = Sign("forged", <<>>)]}
    \cup (IF p.content.type = "commit"
          THEN {[p EXCEPT !.confirmation_tag = NoneV],
                [p EXCEPT !.confirmation_tag = Some(Hmac(<<"forged">>, <<>>))]}
               \cup {Resigned([p EXCEPT !.content.commit.path = NoneV], p.signature[2], context)
                     : context \in KnownContexts}
          ELSE {})

PendingPlaintexts == IF IsSome(pending) THEN {Get(pending).commit.plaintext} ELSE {}
SentPlaintexts == net \cup PendingPlaintexts
\* All that may reach process_plaintext
Deliverable == UNION {PlaintextForms(p) : p \in SentPlaintexts}
\* The pending commits a committer may hand to process_pending_commit
PendingForms ==
    IF IsSome(pending)
    THEN {[Get(pending).commit EXCEPT !.plaintext = q]
          : q \in PlaintextForms(Get(pending).commit.plaintext)}
    ELSE {}
\* The plaintexts that member m built itself.
OwnPlaintexts(m) ==
    {p \in net : p.signature[2] = m}
    \cup (IF IsSome(pending) /\ Get(pending).by = m THEN PendingPlaintexts ELSE {})

ProcessPlaintext(m, plaintext) ==
    \E out \in {process_plaintext(G(m), plaintext)} :
       Processed("process_plaintext", m, Some(plaintext), out)

ProcessPendingCommit(m, pc) ==
    /\ IsSome(pending) /\ Get(pending).by = m
    /\ \E out \in {process_pending_commit(G(m), pc)} :
          Processed("process_pending_commit", m, Some(pc.plaintext), out)

EncryptPlaintext(m, r, plaintext) ==
    /\ ~NetFull /\ Open(m)
    /\ \E sealed \in {encrypt_plaintext(G(m), r, plaintext)} :
          /\ groups' = [groups EXCEPT ![m] = Some(sealed.group)]
          /\ cnet' = cnet \cup {sealed.ciphertext}
    /\ UNCHANGED <<pending, net, hist, applied, arrival>>

EncryptApplicationMessage(m, r, message) ==
    /\ ~NetFull /\ Open(m)
    /\ \E sealed \in {encrypt_application_message(G(m), r, message, m)} :
          /\ groups' = [groups EXCEPT ![m] = Some(sealed.group)]
          /\ cnet' = cnet \cup {sealed.ciphertext}
    /\ UNCHANGED <<pending, net, hist, applied, arrival>>

\* A ciphertext reaches a handler as it was sent or with another epoch field.
CiphertextForms(c) ==
    {c} \cup {[c EXCEPT !.epoch = e] : e \in {c.epoch - 1, c.epoch + 1} \cap (0 .. MaxEpoch)}
CDeliverable == UNION {CiphertextForms(c) : c \in cnet}

\* The plaintext that process_ciphertext hands to process_plaintext, if the
\* ciphertext opens.
Opened(g, c) ==
    Only({ Only({ IF ~sd.ok THEN NoneV
    ELSE Only({ IF ~key.ok THEN NoneV
         ELSE Only({ IF ~pt.ok THEN NoneV
              ELSE Some([group_id |-> c.group_id, epoch |-> c.epoch,
                         sender |-> Val(sd).sender, content |-> Val(pt).content,
                         signature |-> Val(pt).signature,
                         confirmation_tag |-> Val(pt).confirmation_tag])
                    : pt \in {AeadDecrypt(Val(key).key, c.ciphertext,
                       [group_id |-> c.group_id, epoch |-> c.epoch,
                        content_type |-> c.content_type, authenticated_data |-> <<>>],
                       reuse_safe_nonce(Val(key), Val(sd).reuse_guard))}})
               : key \in {get_decryption_key(g.key_schedule, Val(sd).sender, Val(sd).generation,
                                 KeyTypeOf(c.content_type))}})
          : sd \in {AeadDecrypt(params.key, c.encrypted_sender_data,
                     [group_id |-> g.context.group_id, epoch |-> g.context.epoch,
                      content_type |-> c.content_type], params.nonce)}})
          : params \in {get_sender_data_params(g.key_schedule, c.ciphertext)}})

ProcessCiphertext(m, c) ==
    \E out \in {process_ciphertext(G(m), c)} : \E opened \in {Opened(G(m), c)} :
       Processed("process_ciphertext", m, opened, out)

\* A new member joins with its initial key package, a Welcome that was sent
\* and the tree of a member.
SentWelcomes ==
    IF IsSome(pending) /\ IsSome(Get(pending).commit.welcome)
    THEN {Get(Get(pending).commit.welcome)} ELSE {}
KnownTrees == {G(x).public_tree : x \in ActiveMembers}
Join(m, welcome, tree) ==
    /\ \E res \in {from_welcome_message(welcome, tree, KeyPackageGeneration(m, 0))} :
          /\ groups' = IF res.ok THEN [groups EXCEPT ![m] = Some(Val(res))] ELSE groups
          /\ hist' = IF res.ok
                     THEN [hist EXCEPT ![m] = [via |-> "from_welcome_message",
                                               msg |-> Some(welcome), pre |-> <<>>,
                                               cache |-> {}]]
                     ELSE hist
    /\ UNCHANGED <<pending, net, cnet, applied, arrival>>

\* The group's handshake in plaintext.
Next ==
    \/ \E m \in ActiveMembers : \E p \in SendCandidates(G(m)) : SendProposal(m, p) /\ UNCHANGED <<storage, kemvars, libvars>>
    \/ \E m \in ActiveMembers, r \in Rand : UpdateProposalCall(m, r) /\ UNCHANGED <<storage, kemvars, libvars>>
    \/ \E m \in ActiveMembers, update_path \in BOOLEAN, r \in Rand :
         \E order \in KeyOrders(G(m)) :
           \E proposals \in {<<>>} \cup {<<p>> : p \in InlineCandidates(G(m))} :
             CommitProposals(m, proposals, update_path, r, order) /\ UNCHANGED <<storage, kemvars, libvars>>
    \/ \E m \in ActiveMembers : \E q \in SentPlaintexts : ProcessPlaintext(m, q) /\ UNCHANGED <<storage, kemvars, libvars>>
    \/ \E m \in ActiveMembers : \E q \in PendingPlaintexts :
         ProcessPendingCommit(m, Get(pending).commit) /\ UNCHANGED <<storage, kemvars, libvars>>
    \/ \E m \in Members \ ActiveMembers : \E w \in SentWelcomes : \E t \in KnownTrees : Join(m, w, t) /\ UNCHANGED <<storage, kemvars, libvars>>

Spec == Init /\ [][Next]_vars

\* The group with Adds of key packages of either cipher suite, sent as
\* proposals or committed by value.
SuiteNext ==
    \/ \E m \in ActiveMembers : \E p \in AnySuiteAdds(G(m)) : SendProposal(m, p) /\ UNCHANGED <<storage, kemvars, libvars>>
    \/ \E m \in ActiveMembers, update_path \in BOOLEAN, r \in Rand :
         \E order \in KeyOrders(G(m)) :
           \E proposals \in {<<>>} \cup {<<p>> : p \in AnySuiteAdds(G(m))} :
             CommitProposals(m, proposals, update_path, r, order) /\ UNCHANGED <<storage, kemvars, libvars>>
    \/ \E m \in ActiveMembers : \E q \in SentPlaintexts : ProcessPlaintext(m, q) /\ UNCHANGED <<storage, kemvars, libvars>>
    \/ \E m \in ActiveMembers : \E q \in PendingPlaintexts :
         ProcessPendingCommit(m, Get(pending).commit) /\ UNCHANGED <<storage, kemvars, libvars>>
    \/ \E m \in Members \ ActiveMembers : \E w \in SentWelcomes : \E t \in KnownTrees : Join(m, w, t) /\ UNCHANGED <<storage, kemvars, libvars>>

SuiteSpec == Init /\ [][SuiteNext]_vars

\* Every operation of the group, the handshake in plaintext or encrypted;
\* only Adds are committed by value.
CipherNext ==
    \/ \E m \in ActiveMembers : \E p \in SendCandidates(G(m)) : SendProposal(m, p) /\ UNCHANGED <<storage, kemvars, libvars>>
    \/ \E m \in ActiveMembers, r \in Rand : UpdateProposalCall(m, r) /\ UNCHANGED <<storage, kemvars, libvars>>
    \/ \E m \in ActiveMembers, update_path \in BOOLEAN, r \in Rand :
         \E order \in KeyOrders(G(m)) :
           \E proposals \in {<<>>} \cup {<<p>> : p \in AddCandidates(G(m))} :
             CommitProposals(m, proposals, update_path, r, order) /\ UNCHANGED <<storage, kemvars, libvars>>
    \/ \E m \in ActiveMembers : \E q \in SentPlaintexts : ProcessPlaintext(m, q) /\ UNCHANGED <<storage, kemvars, libvars>>
    \/ \E m \in ActiveMembers : \E q \in PendingPlaintexts :
         ProcessPendingCommit(m, Get(pending).commit) /\ UNCHANGED <<storage, kemvars, libvars>>
    \/ \E m \in Members \ ActiveMembers : \E w \in SentWelcomes : \E t \in KnownTrees : Join(m, w, t) /\ UNCHANGED <<storage, kemvars, libvars>>
    \/ \E m \in ActiveMembers, r \in Rand : \E p \in OwnPlaintexts(m) : EncryptPlaintext(m, r, p) /\ UNCHANGED <<storage, kemvars, libvars>>
    \/ \E m \in ActiveMembers, r \in Rand, d \in Payloads : EncryptApplicationMessage(m, r, d) /\ UNCHANGED <<storage, kemvars, libvars>>
    \/ \E m \in ActiveMembers : \E c \in cnet : ProcessCiphertext(m, c) /\ UNCHANGED <<storage, kemvars, libvars>>

CipherSpec == Init /\ [][CipherNext]_vars


\* The storage: one connection, on which each call runs from start to end;
\* written keeps, for each group, the state of its last write that returned Ok.
\* A call is given a group state, the records of new epochs, the records of
\* epochs to replace, and the bound of the prune.
GroupStates ==
    [id : GroupIds, body : Bodies, serializable : {TRUE}]
    \cup {[id |-> "g1", body |-> "x", serializable |-> FALSE]}
NewRecords ==
    [id : EpochIds, body : {"x"}, serializable : {TRUE}]
    \cup {[id |-> 0, body |-> "x", serializable |-> FALSE]}
ChangedRecords ==
    [id : EpochIds, body : {"y"}, serializable : {TRUE}]
    \cup {[id |-> 0, body |-> "y", serializable |-> FALSE]}
Batches(records, n) == UNION {[1 .. k -> records] : k \in 0 .. n}
Inserts == Batches(NewRecords, MaxBatch)
Updates == Batches(ChangedRecords, 1)
DeleteUnders == {NoneV} \cup {Some(d) : d \in 0 .. (MaxEpochId + 1)}

WriteCall(state, epoch_inserts, epoch_updates, delete_epoch_under, refused) ==
    \E out \in {write(store, state, epoch_inserts, epoch_updates, delete_epoch_under, refused)} :
       /\ store' = out.db
       /\ written' = IF out.res.ok THEN [written EXCEPT ![state.id] = Some(state)] ELSE written
       /\ UNCHANGED <<vars, kemvars, libvars>>

StoreNext ==
    \E state \in GroupStates, epoch_inserts \in Inserts, epoch_updates \in Updates :
      \E delete_epoch_under \in DeleteUnders, refused \in Refusals :
         WriteCall(state, epoch_inserts, epoch_updates, delete_epoch_under, refused)

StoreSpec == Init /\ [][StoreNext]_<<vars, storage, kemvars, libvars>>


\* The public tree of the tree KEM, built and changed the way the tests of
\* parent_hash.rs do it, one call at a step.  kemlog keeps what was done:
\* where the tree comes from, how many calls have computed parent hashes, how
\* many nodes were blanked, whether since the tree was built only leaves
\* committed (phase "commit") and then only leaves were added (phase "add"),
\* the parents on the filtered direct paths of those commits, and whether
\* each commit found its path free of unmerged leaves.
PathNodes(tree, index) ==
    {filtered_direct_path_co_path(tree, index)[k][1]
       : k \in DOMAIN filtered_direct_path_co_path(tree, index)}
Built == kemlog.origin = "new" /\ kem # <<>>
Off(log) == [log EXCEPT !.phase = IF @ = "build" THEN "build" ELSE "off"]

\* tree.add_leaves of one leaf
AddLeaves ==
    /\ kemlog.origin = "new"
    /\ Cardinality(non_empty_leaves(kem)) < MaxTreeLeaves
    /\ kem' = add_leaves(kem, <<"L">>)
    /\ kemlog' = [kemlog EXCEPT !.phase = IF @ \in {"commit", "add"} THEN "add" ELSE @]
    /\ UNCHANGED <<vars, storage, libvars>>

\* tree.nodes[x] = Some(test_parent_node(unmerged_leaves)), of a blank parent
\* before any parent hash is computed
SetParent(x, unmerged_leaves) ==
    /\ Built /\ x < Len(kem) /\ Level(x) # 0
    /\ is_blank(kem, x) /\ kemlog.phase = "build" /\ kemlog.hashed = 0
    /\ unmerged_leaves \subseteq SubtreeLeaves(x, total_leaf_count(kem)) \cap non_empty_leaves(kem)
    /\ Cardinality(unmerged_leaves) <= 1
    /\ kem' = SetNode(kem, x, test_parent_node(x, unmerged_leaves))
    /\ kemlog' = Off(kemlog)
    /\ UNCHANGED <<vars, storage, libvars>>

\* tree.nodes[x] = None; of the figure-12 tree one parent is blanked
BlankNode(x) ==
    /\ kem # <<>> /\ x < Len(kem) /\ ~is_blank(kem, x)
    /\ kemlog.blanked < MaxBlanked
    /\ kemlog.origin = "fig12" => NodeAt(kem, x).t = "parent"
    /\ kem' = SetNode(kem, x, Blank)
    /\ kemlog' = [Off(kemlog) EXCEPT !.blanked = @ + 1]
    /\ UNCHANGED <<vars, storage, libvars>>

\* leaf_node_source = Commit(tree.update_parent_hashes(index, None).unwrap())
CommitLeaf(index) ==
    /\ Built /\ index \in non_empty_leaves(kem)
    /\ kemlog.hashed < MaxHashed
    /\ \E done \in {update_parent_hashes(kem, index, NoneV)} :
         /\ done.res.ok
         /\ kem' = [done.tree EXCEPT ![2 * index + 1].leaf_node_source = CommitSource(Val(done.res))]
         /\ kemlog' = [kemlog EXCEPT
               !.hashed = @ + 1,
               !.phase = IF @ \in {"build", "commit"} THEN "commit" ELSE "off",
               !.covered = IF kemlog.phase = "build" THEN PathNodes(kem, index)
                           ELSE @ \cup PathNodes(kem, index),
               !.merged = (IF kemlog.phase = "build" THEN TRUE ELSE @)
                          /\ \A p \in PathNodes(kem, index) : NodeAt(kem, p).unmerged_leaves = {}]
    /\ UNCHANGED <<vars, storage, libvars>>

\* The leaf nodes a sender's update path may carry
PathLeaves(tree, index) ==
    {TreeLeaf("L", KeyPackageSource), TreeLeaf("L", CommitSource(<<"f00d">>))}
    \cup {TreeLeaf("L", CommitSource(Val(parent_hash_for_leaf(tree, index).res)))
            : ok \in {b \in {TRUE} : parent_hash_for_leaf(tree, index).res.ok}}

\* tree.update_parent_hashes(index, update_path)
UpdateParentHashes(index, update_path) ==
    /\ Built /\ index \in non_empty_leaves(kem)
    /\ kemlog.hashed < MaxHashed
    /\ kem' = update_parent_hashes(kem, index, update_path).tree
    /\ kemlog' = [Off(kemlog) EXCEPT !.hashed = @ + 1]
    /\ UNCHANGED <<vars, storage, libvars>>

\* get_test_tree_fig_12, with test leaf nodes of one source or another
GetTestTreeFig12(source) ==
    /\ kem = <<>>
    /\ kem' = get_test_tree_fig_12(source)
    /\ kemlog' = [NewLog EXCEPT !.origin = "fig12", !.phase = "off"]
    /\ UNCHANGED <<vars, storage, libvars>>

TreeNext ==
    \/ AddLeaves
    \/ \E x \in 0 .. (Len(kem) - 1) : \E unmerged_leaves \in SUBSET (0 .. (total_leaf_count(kem) - 1)) :
          SetParent(x, unmerged_leaves)
    \/ \E x \in 0 .. (Len(kem) - 1) : BlankNode(x)
    \/ \E index \in 0 .. (total_leaf_count(kem) - 1) : CommitLeaf(index)
    \/ \E index \in 0 .. (total_leaf_count(kem) - 1) :
          \E update_path \in {NoneV} \cup {Some(ValidatedUpdatePath(l)) : l \in PathLeaves(kem, index)} :
             UpdateParentHashes(index, update_path)
    \/ \E source \in {KeyPackageSource, CommitSource(<<"f00d">>)} : GetTestTreeFig12(source)

TreeSpec == Init /\ [][TreeNext]_<<vars, storage, kemvars, libvars>>


\* ============================================================ properties
Handlers == {"process_plaintext", "process_pending_commit", "process_ciphertext"}
\* In this step member m processes a commit successfully.
StepInstalls(m) == hist'[m] # hist[m] /\ hist'[m].via \in Handlers
\* The commits that may reach a handler, in all their forms.
CommitForms == {q \in Deliverable : q.content.type = "commit"}
\* Application plaintexts as the members would build them now.
ApplicationPlaintexts ==
    {construct_mls_plaintext(G(x), Application(d), x) : x \in ActiveMembers, d \in Payloads}
\* Plaintexts of every content type, under every epoch and sender field.
StrayPlaintexts ==
    {[q EXCEPT !.epoch = e, !.sender = i] :
        q \in Deliverable \cup ApplicationPlaintexts,
        e \in 0 .. (MaxEpoch + 1), i \in 0 .. MaxLeaves}

\* C1: in every step of every operation the epoch of a member's group stays
\* as it is, unless the step is the successful processing of a commit, and
\* then it grows by exactly one.
C1_EpochSteps ==
    [][\A m \in ActiveMembers :
         /\ IsSome(groups'[m])
         /\ IF StepInstalls(m)
            THEN /\ Get(hist'[m].msg).content.type = "commit"
                 /\ Get(groups'[m]).context.epoch = G(m).context.epoch + 1
            ELSE Get(groups'[m]).context.epoch = G(m).context.epoch]_vars

\* A member that has processed two commits, one after the other.
C1_Witness ==
    \E m \in ActiveMembers :
        /\ hist[m].via \in Handlers
        /\ Get(hist[m].pre).context.epoch > 0
        /\ G(m).context.epoch = Get(hist[m].pre).context.epoch + 1

\* C2: a commit, in any form, whose processing fails leaves every field of
\* the Group as it was, by process_plaintext and by process_pending_commit.
C2_FailedCommitKeepsGroup ==
    /\ \A m \in ActiveMembers : \A q \in CommitForms :
         \A out \in {process_plaintext(G(m), q)} : ~out.res.ok => out.group = G(m)
    /\ \A m \in ActiveMembers : \A pc \in PendingForms :
         \A out \in {process_pending_commit(G(m), pc)} : ~out.res.ok => out.group = G(m)

\* A member with proposals in its cache for which a commit fails at the
\* confirmation tag.
C2_Witness ==
    \E m \in ActiveMembers : \E q \in CommitForms :
        /\ G(m).proposals # EmptyMap
        /\ process_plaintext(G(m), q) = Outcome(Err("InvalidConfirmationTag"), G(m))

\* C3: a plaintext whose epoch is not the group's is rejected with
\* InvalidPlaintextEpoch by process_plaintext and process_pending_commit,
\* whatever its content, sender or signature, and the Group stays as it was.
C3_WrongEpochRejected ==
    /\ \A m \in ActiveMembers : \A q \in StrayPlaintexts :
         q.epoch # G(m).context.epoch
           => process_plaintext(G(m), q) = Outcome(Err("InvalidPlaintextEpoch"), G(m))
    /\ \A m \in ActiveMembers : \A pc \in PendingForms :
         pc.plaintext.epoch # G(m).context.epoch
           => process_pending_commit(G(m), pc) = Outcome(Err("InvalidPlaintextEpoch"), G(m))

\* A proposal of a past epoch, as it was sent, reaches a member that has
\* moved on, and is not cached.
C3_Witness ==
    \E m \in ActiveMembers : \E q \in net :
        /\ q.content.type = "proposal"
        /\ q.epoch < G(m).context.epoch
        /\ ProposalRef(q) \notin DOMAIN G(m).proposals
        /\ process_plaintext(G(m), q) = Outcome(Err("InvalidPlaintextEpoch"), G(m))

\* C4: a ciphertext whose epoch is not the group's is rejected by
\* process_ciphertext with the invalid-epoch error, and the Group with the
\* ratchets of its key schedule stays as it was.
C4_WrongEpochCiphertextRejected ==
    \A m \in ActiveMembers : \A c \in CDeliverable :
        c.epoch # G(m).context.epoch
          => process_ciphertext(G(m), c) = Outcome(Err("InvalidPlaintextEpoch"), G(m))

\* A ciphertext with another epoch field that fails in the AEAD instead.
C4_Witness ==
    \E m \in ActiveMembers : \E c \in CDeliverable :
        /\ c.epoch # G(m).context.epoch
        /\ process_ciphertext(G(m), c) = Outcome(Err("CipherSuiteError"), G(m))

\* C5: the commit by which a member reached its epoch took it up by exactly
\* one epoch, and the same commit once more is rejected with
\* InvalidPlaintextEpoch and leaves the Group as the first application left it.
C5_SecondApplicationRejected ==
    \A m \in ActiveMembers :
        /\ hist[m].via \in Handlers
             => G(m).context.epoch = Get(hist[m].pre).context.epoch + 1
        /\ \A q \in applied[m] :
             process_plaintext(G(m), q) = Outcome(Err("InvalidPlaintextEpoch"), G(m))
        /\ \A pc \in PendingForms :
             pc.plaintext \in applied[m]
               => process_pending_commit(G(m), pc)
                    = Outcome(Err("InvalidPlaintextEpoch"), G(m))

\* A member that has applied a commit which is still there to be delivered.
C5_Witness ==
    \E m \in ActiveMembers :
        /\ hist[m].via \in Handlers
        /\ Get(hist[m].msg) \in applied[m] \cap SentPlaintexts
        /\ G(m).context.epoch = Get(hist[m].pre).context.epoch + 1


\* The references that a commit makes to cached proposals.
ReferencesOf(q) ==
    {q.content.commit.proposals[k].id :
        k \in {j \in 1 .. Len(q.content.commit.proposals) : ~q.content.commit.proposals[j].inline}}

\* C6: in the step in which a member processes a commit successfully, its
\* tree, context, key schedule and interim transcript hash become those of the
\* new epoch together, and its proposal cache and pending updates are empty.
C6_InstalledTogether ==
    [][\A m \in ActiveMembers :
         StepInstalls(m) =>
           \A g2 \in {Get(groups'[m])} : \A q \in {Get(hist'[m].msg)} :
              /\ g2.proposals = EmptyMap
              /\ g2.pending_updates = EmptyMap
              /\ g2.context.epoch = G(m).context.epoch + 1
              /\ g2.context.tree_hash = tree_hash(g2.public_tree)
              /\ g2.context.confirmed_transcript_hash =
                    get_confirmed_transcript_hash(G(m).interim_transcript_hash,
                                                  Val(MLSPlaintextCommitContent(q)))
              /\ g2.interim_transcript_hash =
                    get_interim_transcript_hash(g2.context.confirmed_transcript_hash,
                                                Get(q.confirmation_tag))
              /\ Hmac(g2.key_schedule.confirmation_key,
                      g2.context.confirmed_transcript_hash) = Get(q.confirmation_tag)
              /\ g2.key_schedule.init_secret # G(m).key_schedule.init_secret]_vars

\* A member that has processed a commit while its cache held a proposal the
\* commit does not refer to, and whose caches are empty.
C6_Witness ==
    \E m \in ActiveMembers :
        /\ hist[m].via \in Handlers
        /\ hist[m].cache \ ReferencesOf(Get(hist[m].msg)) # {}
        /\ G(m).proposals = EmptyMap
        /\ G(m).pending_updates = EmptyMap

\* A resolved proposal list that is empty or holds an Update or a Remove.
NeedsPath(resolved) ==
    \/ resolved = <<>>
    \/ \E k \in 1 .. Len(resolved) : resolved[k].proposal.type \in {"update", "remove"}
\* The commits that member m may be asked to build, as (proposals, order).
CommitRequests(m) ==
    ({<<>>} \cup {<<p>> : p \in InlineCandidates(G(m))}) \X KeyOrders(G(m))
\* A commit without a path that passes the checks of member m up to the
\* resolution of its proposals.
Resolvable(m, q) ==
    /\ q.content.type = "commit"
    /\ ~IsSome(q.content.commit.path)
    /\ IsSome(q.confirmation_tag)
    /\ q.epoch = G(m).context.epoch
    /\ \A kp \in {get_key_package(G(m).public_tree, q.sender)} :
          kp.ok /\ Verify(Val(kp).id, q.signature, signable_representation(q, G(m).context))
    /\ apply_proposals(G(m), q.sender, q.content.commit.proposals).ok

\* C7: commit_proposals without an update path returns InvalidCommit when the
\* resolved proposals are none or hold an Update or a Remove, and builds a
\* commit without a path when they are Adds only; a receiver answers a commit
\* without a path and with such proposals with InvalidCommit and keeps its
\* state, and does not answer one of Adds only with InvalidCommit.
C7_PathRequired ==
    \A m \in ActiveMembers :
        /\ \A req \in CommitRequests(m) :
             \A fetched \in {fetch_proposals(G(m), CommitProposalList(req[2], req[1]),
                                             G(m).private_tree.self_index)} :
             \A res \in {commit_proposals(G(m), req[1], FALSE, 1, req[2], m)} :
                apply_proposals(G(m), G(m).private_tree.self_index,
                                CommitProposalList(req[2], req[1])).ok
                  => IF NeedsPath(Val(fetched))
                     THEN res = Err("InvalidCommit")
                     ELSE res.ok /\ ~IsSome(Val(res).plaintext.content.commit.path)
        /\ \A q \in CommitForms :
             Resolvable(m, q) =>
               \A fetched \in {fetch_proposals(G(m), q.content.commit.proposals, q.sender)} :
               \A out \in {process_plaintext(G(m), q)} :
                  IF NeedsPath(Val(fetched))
                  THEN out = Outcome(Err("InvalidCommit"), G(m))
                  ELSE out.res.ok \/ out.res.err # <<"InvalidCommit">>

\* A member with an Update in its cache that is refused a commit without a
\* path, while a commit without a path that refers to the Update is there
\* for it to refuse.
C7_Witness ==
    \E m \in ActiveMembers :
        /\ \E h \in DOMAIN G(m).proposals : G(m).proposals[h].proposal.type = "update"
        /\ \E order \in KeyOrders(G(m)) :
              commit_proposals(G(m), <<>>, FALSE, 1, order, m) = Err("InvalidCommit")
        /\ \E q \in CommitForms :
              /\ Resolvable(m, q)
              /\ ReferencesOf(q) # {}
              /\ process_plaintext(G(m), q) = Outcome(Err("InvalidCommit"), G(m))


\* What a committer and a receiver, or a joiner, must agree on.
Agreed(g) == [context |-> g.context,
              key_schedule |-> EpochSecrets(g.key_schedule),
              interim_transcript_hash |-> g.interim_transcript_hash]

\* C8: the committer applies the commit it built in its epoch through
\* process_pending_commit, any other member in the same state (context, tree,
\* key schedule, interim transcript hash, cached proposals) applies it through
\* process_plaintext, and both end with the same context, tree, epoch secrets
\* and interim transcript hash; so do two members that have got to their
\* epochs that way.
C8_SenderReceiverAgree ==
    /\ \A s \in ActiveMembers :
         (IsSome(pending) /\ Get(pending).by = s
              /\ Get(pending).commit.plaintext.epoch = G(s).context.epoch)
           => \A os \in {process_pending_commit(G(s), Get(pending).commit)} :
                /\ os.res.ok
                /\ \A r \in ActiveMembers \ {s} :
                     (Public(G(r)) = Public(G(s)) /\ G(r).proposals = G(s).proposals)
                       => \A or \in {process_plaintext(G(r), Get(pending).commit.plaintext)} :
                            or.res.ok /\ Public(or.group) = Public(os.group)
    /\ \A s \in ActiveMembers : \A r \in ActiveMembers :
         (/\ hist[s].via = "process_pending_commit"
          /\ hist[r].via = "process_plaintext"
          /\ hist[s].msg = hist[r].msg
          /\ hist[s].pre = hist[r].pre)
           => Public(G(s)) = Public(G(r))

\* The committer and a receiver have applied the same commit, which has an
\* update path, from the same state.
C8_Witness ==
    \E s \in ActiveMembers : \E r \in ActiveMembers :
        /\ hist[s].via = "process_pending_commit"
        /\ hist[r].via = "process_plaintext"
        /\ hist[s].msg = hist[r].msg
        /\ hist[s].pre = hist[r].pre
        /\ IsSome(Get(hist[s].msg).content.commit.path)
        /\ Public(G(s)) = Public(G(r))

\* The identities that a Welcome is for.
Invited(welcome) ==
    {m \in Members : \E k \in 1 .. Len(welcome.secrets) :
        welcome.secrets[k].key_package_hash = KeyPackageGeneration(m, 0).key_package_hash}

\* C9: once the committer of an Add has applied its pending commit, the added
\* member joins with the Welcome and the committer's tree, and holds the
\* committer's context, epoch secrets and interim transcript hash, and the
\* confirmation tag it computes is the one of the commit; so does a member
\* that has joined.
C9_JoinerAgrees ==
    /\ \A a \in ActiveMembers :
         (/\ IsSome(pending) /\ Get(pending).by = a
          /\ IsSome(Get(pending).commit.welcome)
          /\ hist[a].via = "process_pending_commit"
          /\ hist[a].msg = Some(Get(pending).commit.plaintext))
           => \A b \in Invited(Get(Get(pending).commit.welcome)) :
              \A res \in {from_welcome_message(Get(Get(pending).commit.welcome),
                                               G(a).public_tree, KeyPackageGeneration(b, 0))} :
                 /\ res.ok
                 /\ Agreed(Val(res)) = Agreed(G(a))
                 /\ Hmac(Val(res).key_schedule.confirmation_key,
                         Val(res).context.confirmed_transcript_hash)
                      = Get(Get(pending).commit.plaintext.confirmation_tag)
    /\ \A a \in ActiveMembers : \A b \in ActiveMembers :
         (/\ hist[b].via = "from_welcome_message"
          /\ hist[a].via = "process_pending_commit"
          /\ IsSome(pending) /\ Get(pending).by = a
          /\ hist[a].msg = Some(Get(pending).commit.plaintext)
          /\ hist[b].msg = Get(pending).commit.welcome)
           => Agreed(G(b)) = Agreed(G(a))

\* The added member has joined with the Welcome of the commit that the
\* committer has applied.
C9_Witness ==
    \E a \in ActiveMembers : \E b \in ActiveMembers :
        /\ hist[b].via = "from_welcome_message"
        /\ hist[a].via = "process_pending_commit"
        /\ IsSome(pending) /\ Get(pending).by = a
        /\ hist[a].msg = Some(Get(pending).commit.plaintext)
        /\ hist[b].msg = Get(pending).commit.welcome
        /\ G(b).public_tree = G(a).public_tree
        /\ Agreed(G(b)) = Agreed(G(a))

\* C10: the references in the proposal list of a commit that commit_proposals
\* builds name the cached proposals in the order of their arrival in the cache.
C10_ArrivalOrder ==
    \A m \in ActiveMembers : \A order \in KeyOrders(G(m)) :
        \A res \in {commit_proposals(G(m), <<>>, TRUE, 1, order, m)} :
           res.ok => \A list \in {Val(res).plaintext.content.commit.proposals} :
                        [k \in 1 .. Len(list) |-> list[k].id] = arrival[m]

\* A member with two proposals in its cache for which commit_proposals builds
\* a commit that names them in the other order.
C10_Witness ==
    \E m \in ActiveMembers : \E order \in KeyOrders(G(m)) :
        /\ Len(arrival[m]) = 2
        /\ order # arrival[m]
        /\ commit_proposals(G(m), <<>>, TRUE, 1, order, m).ok

\* ------------------------------------------------ the order of application
\* Removal of a member as the protocol describes it: the leaf and every node
\* of its direct path become blank, and the tree keeps its width.
remove_leaf(tree, leaf) ==
    IF leaf \notin LeafIndices(tree) THEN tree
    ELSE Only({ [x1 \in 1 .. Len(tree) |->
                   IF x1 - 1 = 2 * leaf \/ \E k \in 1 .. Len(path) : path[k] = x1 - 1
                   THEN Blank ELSE tree[x1]]
               : path \in {DirectPath(2 * leaf, leaf_count(tree))}})
RECURSIVE remove_leaves(_, _)
remove_leaves(tree, resolved) ==
    IF resolved = <<>> THEN tree
    ELSE remove_leaves(IF is_remove(Head(resolved).proposal)
                       THEN remove_leaf(tree, Head(resolved).proposal.to_remove)
                       ELSE tree,
                       Tail(resolved))

\* The tree after all Updates, then all Removes, then all Adds of a resolved
\* list, each kind in list order.
UpdatesRemovesAdds(g, resolved) ==
    add_nodes(remove_leaves(Val(apply_updates(g, g.public_tree, NoneV, resolved)).public_tree,
                            resolved),
              AddsOf(resolved)).tree

\* The proposal lists member m may meet in a commit: the references of its
\* cache and at most one proposal by value, in every order.
ProposalLists(m) ==
    UNION {Perms({Reference(h) : h \in DOMAIN G(m).proposals} \cup inl)
           : inl \in {{}} \cup {{InlineProposal(p)} : p \in InlineCandidates(G(m))}}

KindsOf(resolved) == {resolved[k].proposal.type : k \in 1 .. Len(resolved)}

\* C11: the provisional tree of apply_proposals is the tree after all Updates,
\* then all Removes, then all Adds of the list, each kind in list order,
\* whatever the order of the kinds in the list.
C11_UpdateRemoveAdd ==
    \A m \in ActiveMembers : \A list \in ProposalLists(m) :
        \A res \in {apply_proposals(G(m), G(m).private_tree.self_index, list)} :
           res.ok =>
             \A resolved \in {Val(fetch_proposals(G(m), list, G(m).private_tree.self_index))} :
                Val(res).public_tree = UpdatesRemovesAdds(G(m), resolved)

\* A list with an Update, a Remove and an Add for which apply_proposals
\* returns a tree in which the removed leaf is still occupied.
C11_Witness ==
    \E m \in ActiveMembers : \E list \in ProposalLists(m) :
        \E res \in {apply_proposals(G(m), G(m).private_tree.self_index, list)} :
           /\ res.ok
           /\ \E resolved \in {Val(fetch_proposals(G(m), list, G(m).private_tree.self_index))} :
                 /\ KindsOf(resolved) = {"update", "remove", "add"}
                 /\ \E k \in 1 .. Len(resolved) :
                       /\ is_remove(resolved[k].proposal)
                       /\ resolved[k].proposal.to_remove \in OccupiedLeaves(Val(res).public_tree)

\* The leaves that the Removes a commit holds by value name, the committer's
\* own leaf left aside.
RemovedBy(q) ==
    {q.content.commit.proposals[k].proposal.to_remove :
        k \in {j \in 1 .. Len(q.content.commit.proposals) :
                 /\ q.content.commit.proposals[j].inline
                 /\ is_remove(q.content.commit.proposals[j].proposal)
                 /\ q.content.commit.proposals[j].proposal.to_remove # q.sender}}

\* C12: once a member has applied a commit with Remove(L), leaf L and every
\* node of L's direct path are blank in its tree, and the tree has no fewer
\* leaves than before.
C12_RemovedLeafBlank ==
    \A m \in ActiveMembers :
        hist[m].via \in Handlers =>
          \A before \in {Get(hist[m].pre).public_tree} : \A tree \in {G(m).public_tree} :
             \A leaf \in RemovedBy(Get(hist[m].msg)) \cap LeafIndices(before) :
                /\ leaf_count(tree) >= leaf_count(before)
                /\ NodeAt(tree, 2 * leaf) = Blank
                /\ \A path \in {DirectPath(2 * leaf, leaf_count(before))} :
                      \A k \in 1 .. Len(path) : NodeAt(tree, path[k]) = Blank

\* A member that has applied another member's commit with Remove(L) and still
\* has at leaf L the key package that was there before.
C12_Witness ==
    \E m \in ActiveMembers :
        /\ hist[m].via \in Handlers
        /\ \E leaf \in RemovedBy(Get(hist[m].msg)) :
              /\ leaf \in OccupiedLeaves(Get(hist[m].pre).public_tree)
              /\ leaf_count(G(m).public_tree) = leaf_count(Get(hist[m].pre).public_tree)
              /\ NodeAt(G(m).public_tree, 2 * leaf) = NodeAt(Get(hist[m].pre).public_tree, 2 * leaf)

\* ------------------------------------------------- building a commit
\* In this step member m applies a commit that it built itself.
StepInstallsOwn(m) ==
    /\ StepInstalls(m)
    /\ Get(hist'[m].msg).sender = G(m).private_tree.self_index

\* C13 as stated: a step in which a commit is built leaves every member's
\* Group as it was, and a committer gets to the epoch of its commit through
\* process_pending_commit only.
C13_OnlyPendingCommit ==
    [][/\ pending' # pending => groups' = groups
       /\ \A m \in ActiveMembers :
            StepInstallsOwn(m) => hist'[m].via = "process_pending_commit"]_vars

\* C13, amended: a step in which a commit is built leaves every member's Group
\* as it was; a committer gets to the epoch of its commit in a later step of
\* process_pending_commit or, when the commit has no update path, of
\* process_plaintext on the commit's plaintext.
C13_CommitKeepsGroup ==
    [][/\ pending' # pending => groups' = groups
       /\ \A m \in ActiveMembers :
            StepInstallsOwn(m) =>
              \/ hist'[m].via = "process_pending_commit"
              \/ /\ hist'[m].via = "process_plaintext"
                 /\ ~IsSome(Get(hist'[m].msg).content.commit.path)]_vars

\* A committer that holds the commit it built, with an update path, while its
\* group is in the commit's epoch still, with cached proposals.
C13_Witness ==
    \E m \in ActiveMembers :
        /\ IsSome(pending) /\ Get(pending).by = m
        /\ IsSome(Get(pending).commit.plaintext.content.commit.path)
        /\ Get(pending).commit.plaintext.epoch = G(m).context.epoch
        /\ G(m).proposals # EmptyMap

\* ------------------------------------------------------ cached proposals
\* The proposal plaintexts that were sent.
SentProposals == {p \in net : p.content.type = "proposal"}
\* What a sender and every receiver note for proposal plaintext p.
NotedFor(p) == PendingProposal(p.content.proposal, p.sender)

\* C14: send_proposal leaves the proposal in the sender's cache under the hash
\* of the plaintext it returns, with the sender's own leaf; a member that
\* processes the plaintext caches the same entry under the same reference, as
\* every member in the sender's epoch state does; and a reference resolves to
\* the same proposal and sender at every member that holds it.
C14_SameCacheEntry ==
    /\ \A s \in ActiveMembers : \A proposal \in SendCandidates(G(s)) :
         \A sent \in {send_proposal(G(s), proposal, s)} :
         \A ref \in {ProposalRef(sent.plaintext)} :
            /\ ref \in DOMAIN sent.group.proposals
            /\ sent.group.proposals[ref] = PendingProposal(proposal, G(s).private_tree.self_index)
            /\ \A r \in ActiveMembers \ {s} :
                 \A out \in {process_plaintext(G(r), sent.plaintext)} :
                    /\ (G(r).context = G(s).context /\ G(r).public_tree = G(s).public_tree)
                          => out.res.ok
                    /\ out.res.ok =>
                         /\ ref \in DOMAIN out.group.proposals
                         /\ out.group.proposals[ref] = sent.group.proposals[ref]
                         /\ fetch_proposals(out.group, <<Reference(ref)>>,
                                            G(r).private_tree.self_index)
                              = fetch_proposals(sent.group, <<Reference(ref)>>,
                                                G(s).private_tree.self_index)
    /\ \A m \in ActiveMembers : \A h \in DOMAIN G(m).proposals :
         \E p \in SentProposals :
            /\ ProposalRef(p) = h
            /\ p.epoch = G(m).context.epoch
            /\ G(m).proposals[h] = NotedFor(p)

\* Two members hold the same proposal under the same reference, one having
\* sent it and the other having processed it.
C14_Witness ==
    \E s \in ActiveMembers : \E r \in ActiveMembers \ {s} : \E p \in SentProposals :
        /\ p.sender = G(s).private_tree.self_index
        /\ ProposalRef(p) \in DOMAIN G(s).proposals \cap DOMAIN G(r).proposals
        /\ G(r).proposals[ProposalRef(p)] = NotedFor(p)
        /\ G(s).proposals[ProposalRef(p)] = NotedFor(p)

\* ------------------------------------------------- missing references
\* The references of a proposal list that are not keys of the cache of g, in
\* list order.
MissingIn(g, list) ==
    SelectSeq(list, LAMBDA e : ~e.inline /\ e.id \notin DOMAIN g.proposals)
MissingProposal(id) == [ok |-> FALSE, err |-> <<"MissingProposal", id>>, val |-> <<>>]
\* A commit with a confirmation tag that passes the epoch and signature
\* checks of member m: all that comes before its proposals are resolved.
Admitted(m, q) ==
    /\ q.content.type = "commit"
    /\ IsSome(q.confirmation_tag)
    /\ q.epoch = G(m).context.epoch
    /\ \A kp \in {get_key_package(G(m).public_tree, q.sender)} :
          kp.ok /\ Verify(Val(kp).id, q.signature, signable_representation(q, G(m).context))

\* C15: a commit with a reference that is not a key of the member's cache is
\* answered with MissingProposal of that reference (the first such in the
\* list), by process_plaintext and by process_pending_commit, and the Group,
\* its epoch and its cache with it, stays as it was.
C15_MissingProposal ==
    /\ \A m \in ActiveMembers : \A q \in CommitForms :
         \A missing \in {MissingIn(G(m), q.content.commit.proposals)} :
            (Admitted(m, q) /\ missing # <<>>)
              => process_plaintext(G(m), q) = Outcome(MissingProposal(missing[1].id), G(m))
    /\ \A m \in ActiveMembers : \A pc \in PendingForms :
         \A missing \in {MissingIn(G(m), pc.plaintext.content.commit.proposals)} :
            (Admitted(m, pc.plaintext) /\ missing # <<>>)
              => process_pending_commit(G(m), pc)
                   = Outcome(MissingProposal(missing[1].id), G(m))

\* A member is given a commit, of its epoch and well signed, that refers to a
\* proposal it has not got, and answers with MissingProposal of the reference.
C15_Witness ==
    \E m \in ActiveMembers : \E q \in CommitForms :
        /\ Admitted(m, q)
        /\ MissingIn(G(m), q.content.commit.proposals) # <<>>
        /\ \E id \in ReferencesOf(q) :
              process_plaintext(G(m), q) = Outcome(MissingProposal(id), G(m))

\* ---------------------------------------------------------------- joining
\* The GroupInfo sealed in a Welcome, and the Welcome with another GroupInfo
\* sealed under the same welcome secret.
GroupInfoOf(welcome) == welcome.encrypted_group_info.pt
Resealed(welcome, group_info) == [welcome EXCEPT !.encrypted_group_info.pt = group_info]
SignedGroupInfo(group_info, signer) ==
    [group_info EXCEPT
        !.signature = Sign(signer, <<"GroupInfo", [group_info EXCEPT !.signature = <<>>]>>)]
\* The forms in which a Welcome may reach a joiner: as it was sent, without
\* its secrets, with a forged GroupInfo signature, and, signed by the
\* committer, with another confirmation tag or another tree hash.
WelcomeForms(welcome) ==
    {welcome, [welcome EXCEPT !.secrets = <<>>]}
    \cup UNION {{Resealed(welcome, [gi EXCEPT !.signature = Sign("forged", <<>>)]),
                 Resealed(welcome, SignedGroupInfo(
                     [gi EXCEPT !.confirmation_tag = Hmac(<<"forged">>, <<>>)], gi.signature[2])),
                 Resealed(welcome, SignedGroupInfo(
                     [gi EXCEPT !.tree_hash = tree_hash(<<>>)], gi.signature[2]))}
                : gi \in {GroupInfoOf(welcome)}}
\* The entries of a Welcome for a key package; they open with its secret key.
EntriesFor(welcome, kpg) ==
    {k \in 1 .. Len(welcome.secrets) :
        welcome.secrets[k].key_package_hash = kpg.key_package_hash}
Opens(welcome, kpg) ==
    /\ EntriesFor(welcome, kpg) # {}
    /\ \A k \in EntriesFor(welcome, kpg) :
          welcome.secrets[k].encrypted_group_secrets.to = kpg.secret_key
SignedBy(tree, gi) ==
    \A kp \in {get_key_package(tree, gi.signer_index)} :
        kp.ok /\ Verify(Val(kp).id, gi.signature, <<"GroupInfo", [gi EXCEPT !.signature = <<>>]>>)

\* C16: from_welcome_message returns an error and no Group, which is
\* WelcomeKeyPackageNotFound without an entry for the joiner's key package,
\* InvalidSignature for a GroupInfo that the signer's leaf does not verify,
\* InvalidRatchetTree for a tree with another tree hash or without the
\* joiner's key package, InvalidConfirmationTag for another tag; or it returns
\* a Group with the context of the GroupInfo, the tree it was given, and
\* empty caches.
C16_JoinAllOrNothing ==
    \A sent \in SentWelcomes : \A welcome \in WelcomeForms(sent) :
    \A tree \in KnownTrees : \A id \in Members :
    \A kpg \in {KeyPackageGeneration(id, 0)} : \A gi \in {GroupInfoOf(welcome)} :
    \A res \in {from_welcome_message(welcome, tree, kpg)} :
       /\ EntriesFor(welcome, kpg) = {} => res = Err("WelcomeKeyPackageNotFound")
       /\ ~res.ok => res.val = <<>>
       /\ (Opens(welcome, kpg) /\ get_key_package(tree, gi.signer_index).ok /\ ~SignedBy(tree, gi))
            => res = Err("InvalidSignature")
       /\ (/\ Opens(welcome, kpg) /\ SignedBy(tree, gi)
           /\ \/ tree_hash(tree) # gi.tree_hash
              \/ ~IsSome(find_leaf(tree, kpg.key_package)))
            => res = Err("InvalidRatchetTree")
       /\ (/\ Opens(welcome, kpg) /\ SignedBy(tree, gi)
           /\ tree_hash(tree) = gi.tree_hash
           /\ IsSome(find_leaf(tree, kpg.key_package))
           /\ gi.confirmation_tag = Hmac(<<"forged">>, <<>>))
            => res = Err("InvalidConfirmationTag")
       /\ res.ok =>
            \A g \in {Val(res)} :
               /\ g.context = [group_id |-> gi.group_id, epoch |-> gi.epoch,
                               tree_hash |-> gi.tree_hash,
                               confirmed_transcript_hash |-> gi.confirmed_transcript_hash]
               /\ g.public_tree = tree
               /\ g.proposals = EmptyMap
               /\ g.pending_updates = EmptyMap
               /\ Opens(welcome, kpg) /\ SignedBy(tree, gi)
               /\ tree_hash(tree) = gi.tree_hash
               /\ gi.confirmation_tag
                    = Hmac(g.key_schedule.confirmation_key, gi.confirmed_transcript_hash)

\* A Welcome with which the added member joins, while its forms fail each
\* with its error, and the committer finds no entry for itself.
C16_Witness ==
    \E sent \in SentWelcomes : \E tree \in KnownTrees : \E id \in Members \ {Creator} :
        /\ from_welcome_message(sent, tree, KeyPackageGeneration(id, 0)).ok
        /\ from_welcome_message(sent, tree, KeyPackageGeneration(Creator, 0))
             = Err("WelcomeKeyPackageNotFound")
        /\ {from_welcome_message(w, tree, KeyPackageGeneration(id, 0)).err
              : w \in WelcomeForms(sent) \ {sent}}
             = {<<"WelcomeKeyPackageNotFound">>, <<"InvalidSignature">>,
                <<"InvalidRatchetTree">>, <<"InvalidConfirmationTag">>}

\* ------------------------------------------------------ confirmation tags
\* The confirmation tag of the epoch that Group g is in.
EpochTag(g) == Hmac(g.key_schedule.confirmation_key, g.context.confirmed_transcript_hash)
\* The commits as they were built, before anything changed them on the way.
SentCommits == {q \in SentPlaintexts : q.content.type = "commit"}

\* C17: the commit by which a member reached its epoch carries the tag
\* MAC(confirmation key of that epoch, confirmed transcript hash of its
\* context); a handler installs the epoch of a commit only if the commit's tag
\* is the one of the epoch it computes, and answers the same commit with
\* another tag with an error, keeping the Group.
C17_ConfirmationTag ==
    /\ \A m \in ActiveMembers :
         hist[m].via \in Handlers
           => Get(hist[m].msg).confirmation_tag = Some(EpochTag(G(m)))
    /\ \A m \in ActiveMembers : \A q \in CommitForms :
         \A out \in {process_plaintext(G(m), q)} :
            out.res.ok => /\ out.group.context.epoch = G(m).context.epoch + 1
                          /\ q.confirmation_tag = Some(EpochTag(out.group))
    /\ \A m \in ActiveMembers : \A pc \in PendingForms :
         \A out \in {process_pending_commit(G(m), pc)} :
            out.res.ok => /\ out.group.context.epoch = G(m).context.epoch + 1
                          /\ pc.plaintext.confirmation_tag = Some(EpochTag(out.group))
    /\ \A m \in ActiveMembers : \A q \in SentCommits :
         process_plaintext(G(m), q).res.ok
           => process_plaintext(G(m), [q EXCEPT !.confirmation_tag = Some(Hmac(<<"forged">>, <<>>))])
                = Outcome(Err("InvalidConfirmationTag"), G(m))

\* A member in an epoch that it reached through process_plaintext, for which a
\* further commit is there that it accepts with its tag and refuses with
\* another.
C17_Witness ==
    \E m \in ActiveMembers : \E q \in SentCommits :
        /\ hist[m].via = "process_plaintext"
        /\ Get(hist[m].msg).confirmation_tag = Some(EpochTag(G(m)))
        /\ process_plaintext(G(m), q).res.ok
        /\ process_plaintext(G(m), [q EXCEPT !.confirmation_tag = Some(Hmac(<<"forged">>, <<>>))])
             = Outcome(Err("InvalidConfirmationTag"), G(m))

\* ------------------------------------------------------ ciphertext framing
\* The signed plaintexts member s may frame: those it built, and application
\* messages.
Framable(s) ==
    OwnPlaintexts(s)
    \cup {construct_mls_plaintext(G(s), Application(d), s) : d \in Payloads}
\* Member r is in the epoch state of member s.
SameEpochState(r, s) ==
    /\ G(r).context = G(s).context
    /\ G(r).public_tree = G(s).public_tree
    /\ EpochSecrets(G(r).key_schedule) = EpochSecrets(G(s).key_schedule)

\* C18: what encrypt_plaintext makes of a signed plaintext of the sender's
\* epoch, process_ciphertext of a member in the same epoch state opens and
\* handles as process_plaintext handles the plaintext, with the same result
\* and the same Group afterwards, for application data, proposals and commits.
C18_FramingRoundTrip ==
    \A s \in ActiveMembers : \A p \in Framable(s) : \A rnd \in Rand :
        p.epoch = G(s).context.epoch =>
          \A sealed \in {encrypt_plaintext(G(s), rnd, p)} :
             \A r \in ActiveMembers :
                SameEpochState(r, s)
                  => process_ciphertext(G(r), sealed.ciphertext) = process_plaintext(G(r), p)

\* A proposal of the sender's epoch that another member in the same epoch
\* state caches from the plaintext and cannot open from the ciphertext.
C18_Witness ==
    \E s \in ActiveMembers : \E r \in ActiveMembers \ {s} : \E p \in Framable(s) :
        /\ p.content.type = "proposal"
        /\ p.epoch = G(s).context.epoch
        /\ SameEpochState(r, s)
        /\ process_plaintext(G(r), p).res.ok
        /\ process_ciphertext(G(r), encrypt_plaintext(G(s), 1, p).ciphertext)
             = Outcome(Err("CipherSuiteError"), G(r))

\* ------------------------------------------------------------ storage writes
\* The rows of one group, and the data stored for the records of a batch
EpochsOf(db, group_id) == {row \in db.epoch : row.group_id = group_id}
RowOf(group_id, record) ==
    [group_id |-> group_id, epoch_id |-> record.id, epoch_data |-> Val(Serialize(record))]
RowsOf(group_id, records) == {RowOf(group_id, records[k]) : k \in DOMAIN records}
IdsOf(records) == {records[k].id : k \in DOMAIN records}
\* The record of a batch that is the last one with the id
LastOf(records, id) ==
    records[CHOOSE k \in DOMAIN records :
               /\ records[k].id = id
               /\ \A j \in DOMAIN records : records[j].id = id => j <= k]
Kept(id, delete_under) == IsSome(delete_under) => id >= Get(delete_under)

\* C19: a write is one transaction.  Whatever the stored data, a call that
\* returns an error (a state or a record that does not serialize, an insert
\* under an id the group has, a statement or the commit refused by the
\* engine) leaves the snapshots and the epochs as they were; after a call
\* that returns Ok the snapshot is the one written, every inserted record at
\* or over the prune bound is stored, every replaced record that is stored
\* has the new data, and no epoch of the group is under the prune bound.
C19_AtomicWrite ==
    \A state \in GroupStates, epoch_inserts \in Inserts, epoch_updates \in Updates :
      \A delete_epoch_under \in DeleteUnders, refused \in Refusals :
        \A out \in {write(store, state, epoch_inserts, epoch_updates, delete_epoch_under, refused)} :
          /\ ~out.res.ok => out.db = store
          /\ out.res.ok =>
               /\ get_snapshot_data(out.db, state.id) = Some(Val(Serialize(state)))
               /\ \A id \in IdsOf(epoch_inserts) :
                     Kept(id, delete_epoch_under) =>
                        get_epoch_data(out.db, state.id, id) =
                           Some(Val(Serialize(IF id \in IdsOf(epoch_updates)
                                              THEN LastOf(epoch_updates, id)
                                              ELSE LastOf(epoch_inserts, id))))
               /\ \A id \in IdsOf(epoch_updates) :
                     get_epoch_data(out.db, state.id, id) \in
                        {NoneV, Some(Val(Serialize(LastOf(epoch_updates, id))))}
               /\ \A row \in EpochsOf(out.db, state.id) : Kept(row.epoch_id, delete_epoch_under)

\* Stored data under which a call fails after its first statements were
\* executed: the second insert meets the id that the first has just taken.
C19_Witness ==
    /\ IsSome(get_snapshot_data(store, "g1"))
    /\ IsSome(get_epoch_data(store, "g1", 1))
    /\ ~IsSome(get_epoch_data(store, "g1", 0))
    /\ \E state \in GroupStates, epoch_inserts \in Inserts :
         /\ state.id = "g1" /\ state.serializable
         /\ Some(Val(Serialize(state))) # get_snapshot_data(store, "g1")
         /\ Len(epoch_inserts) = 2
         /\ epoch_inserts[1].id = 0 /\ epoch_inserts[1].serializable
         /\ epoch_inserts[2].id = 1 /\ epoch_inserts[2].serializable
         /\ ~write(store, state, epoch_inserts, <<>>, NoneV, "none").res.ok
         /\ \E good \in Inserts :
              /\ Len(good) = 1 /\ good[1] = epoch_inserts[1]
              /\ write(store, state, good, <<>>, NoneV, "none").res.ok

\* C20: after a successful write the epochs of the group are the epochs
\* stored before and the inserted ones, with the data of every replaced id
\* replaced, less the epochs under the prune bound; the epoch at the bound
\* stays, the prune applies to the epochs of the same call, and without a
\* bound every epoch stays.
C20_EpochsAfterWrite ==
    \A state \in GroupStates, epoch_inserts \in Inserts, epoch_updates \in Updates :
      \A delete_epoch_under \in DeleteUnders, refused \in Refusals :
        \A out \in {write(store, state, epoch_inserts, epoch_updates, delete_epoch_under, refused)} :
          out.res.ok =>
            \A plus \in {EpochsOf(store, state.id) \cup RowsOf(state.id, epoch_inserts)} :
              EpochsOf(out.db, state.id) =
                 {row \in {IF row.epoch_id \in IdsOf(epoch_updates)
                           THEN RowOf(state.id, LastOf(epoch_updates, row.epoch_id))
                           ELSE row : row \in plus} :
                    Kept(row.epoch_id, delete_epoch_under)}

\* Group g1 holds epoch 1 alone, and a write that inserts epoch 0, replaces
\* epoch 1 and prunes under 1 succeeds: epoch 0 of the same call goes, epoch 1
\* stays with the new data.
C20_Witness ==
    /\ EpochsOf(store, "g1") # {}
    /\ \A row \in EpochsOf(store, "g1") : row.epoch_id = 1
    /\ \E state \in GroupStates, epoch_inserts \in Inserts, epoch_updates \in Updates :
         /\ state.id = "g1"
         /\ IdsOf(epoch_inserts) = {0}
         /\ IdsOf(epoch_updates) = {1}
         /\ \E out \in {write(store, state, epoch_inserts, epoch_updates, Some(1), "none")} :
              /\ out.res.ok
              /\ get_epoch_data(out.db, "g1", 0) = NoneV
              /\ get_epoch_data(out.db, "g1", 1) = Some(Val(Serialize(epoch_updates[1])))
              /\ get_epoch_data(out.db, "g1", 1) # get_epoch_data(store, "g1", 1)

\* ------------------------------------------------------------- storage reads
\* SqLiteGroupStateStorage::max_epoch_id.  SELECT MAX(epoch_id) is an aggregate
\* without GROUP BY: it yields one row whatever rows match, with NULL as its
\* column when none does.  row.get::<_, u64> refuses NULL, and optional()
\* turns only the absence of a row into None.
max_epoch_id(db, group_id) ==
    Only({ Only({ IF ~IsSome(column) THEN Err("SqlEngineError")
                  ELSE Ok(Some(Get(column)))
                 : column \in {IF ids = {} THEN NoneV
                               ELSE Some(CHOOSE id \in ids : \A other \in ids : other <= id)}})
          : ids \in {{row.epoch_id : row \in {r \in db.epoch : r.group_id = group_id}}}})

\* C21: max_epoch_id of a group is Ok(Some(m)) with m the largest epoch id
\* stored for the group, and Ok(None) for a group without stored epochs.
C21_MaxEpochId ==
    \A group_id \in GroupIds :
      \A ids \in {{row.epoch_id : row \in EpochsOf(store, group_id)}} :
        /\ ids # {} =>
             \E m \in ids : /\ \A id \in ids : id <= m
                            /\ max_epoch_id(store, group_id) = Ok(Some(m))
        /\ ids = {} => max_epoch_id(store, group_id) = Ok(NoneV)

\* Group g1 holds the epochs 0 and 1 and its largest id is returned, while
\* group g2 was written without any epoch.
C21_Witness ==
    /\ {row.epoch_id : row \in EpochsOf(store, "g1")} = {0, 1}
    /\ max_epoch_id(store, "g1") = Ok(Some(1))
    /\ IsSome(get_snapshot_data(store, "g2"))
    /\ EpochsOf(store, "g2") = {}
    /\ ~max_epoch_id(store, "g2").ok

\* C22: groups are stored apart, one snapshot each.  After any writes,
\* state(g) is the state of the last write for g that returned Ok (None when
\* there was none), and no write for a group changes the snapshot or an
\* epoch of another group.
C22_GroupsApart ==
    /\ \A group_id \in GroupIds : state_of(store, group_id) = Ok(written[group_id])
    /\ \A state \in GroupStates, epoch_inserts \in Inserts, epoch_updates \in Updates :
         \A delete_epoch_under \in DeleteUnders, refused \in Refusals :
           \A out \in {write(store, state, epoch_inserts, epoch_updates, delete_epoch_under, refused)} :
             \A other \in GroupIds \ {state.id} :
                /\ get_snapshot_data(out.db, other) = get_snapshot_data(store, other)
                /\ EpochsOf(out.db, other) = EpochsOf(store, other)

\* Both groups are stored with different snapshots and with epochs, and a
\* write for g1 that replaces its snapshot and prunes its epochs succeeds.
C22_Witness ==
    /\ IsSome(written["g1"]) /\ IsSome(written["g2"])
    /\ Get(written["g1"]).body # Get(written["g2"]).body
    /\ EpochsOf(store, "g1") # {} /\ EpochsOf(store, "g2") # {}
    /\ \E state \in GroupStates :
         /\ state.id = "g1" /\ Some(state) # written["g1"]
         /\ \E out \in {write(store, state, <<>>, <<>>, Some(MaxEpochId + 1), "none")} :
              /\ out.res.ok
              /\ state_of(out.db, "g1") = Ok(Some(state))
              /\ EpochsOf(out.db, "g1") = {}

\* ------------------------------------------------------------- parent hashes
\* A parent-hash link from node n: n's first non-blank ancestor P with its
\* co-path child S, where n carries ParentHash(P, S) and the resolution of
\* P's child over n, less n, is P's unmerged leaves under that child.
LinkOf(tree, n) ==
    IF n = Root(total_leaf_count(tree)) THEN NoneV
    ELSE FirstNonBlank(tree, Parent(n, total_leaf_count(tree)), Sibling(n, total_leaf_count(tree)))
LinksTo(tree, n, p) ==
    \E found \in {LinkOf(tree, n)} :
       /\ IsSome(found) /\ Get(found)[1] = p
       /\ get_parent_hash(NodeAt(tree, n))
             = Some(ParentHash_new(NodeAt(tree, p).public_key, NodeAt(tree, p).parent_hash,
                                   original_tree_hash(tree, Get(found)[2])))
       /\ \E c \in {Sibling(Get(found)[2], total_leaf_count(tree))} :
             /\ n \in get_resolution_index(tree, c)
             /\ get_resolution_index(tree, c) \ {n}
                  = {2 * l : l \in unmerged_in_subtree(tree, p, c)}
\* The nodes on the chains that start at the non-blank leaves
RECURSIVE OnChains(_, _, _)
OnChains(tree, nodes, rounds) ==
    IF rounds = 0 THEN nodes
    ELSE OnChains(tree,
                  nodes \cup {p \in non_empty_parents(tree) : \E n \in nodes : LinksTo(tree, n, p)},
                  rounds - 1)
MarksOf(tree, p) ==
    {n \in OnChains(tree, {2 * i : i \in non_empty_leaves(tree)}, Len(tree)) : LinksTo(tree, n, p)}

\* C23: validate_parent_hashes returns Ok exactly when every non-blank
\* parent is marked by one parent-hash link of a chain from a non-blank leaf
\* and by no second one, and its error is ParentHashMismatch.
C23_MarkedExactlyOnce ==
    kem # <<>> =>
       \A res \in {validate_parent_hashes(kem)} :
          /\ res.ok <=> \A p \in non_empty_parents(kem) : Cardinality(MarksOf(kem, p)) = 1
          /\ ~res.ok => res = Err("ParentHashMismatch")

\* A tree with a parent that validates, and a tree with a parent that no
\* chain marks and that does not validate.
C23_Witness ==
    /\ kem # <<>> /\ non_empty_parents(kem) # {}
    /\ kemlog.origin = "new" /\ kemlog.hashed > 0
    /\ validate_parent_hashes(kem).ok
    /\ \A p \in non_empty_parents(kem) : Cardinality(MarksOf(kem, p)) = 1
    /\ \E x \in non_empty_parents(kem) :
          /\ validate_parent_hashes(SetNode(kem, x, test_parent_node(x, {}))) = Err("ParentHashMismatch")

\* C24: the figure-12 tree as get_test_tree_fig_12 returns it (parents 1, 3,
\* 7, 9, 11, parent hashes updated for leaf 0 and then for leaf 4) validates,
\* and with any one of its parents blanked it fails with ParentHashMismatch.
C24_Figure12 ==
    kemlog.origin = "fig12" =>
       /\ non_empty_parents(kem) \subseteq {1, 3, 7, 9, 11}
       /\ kemlog.blanked = 0 => validate_parent_hashes(kem) = Ok(<<>>)
       /\ kemlog.blanked = 1 => validate_parent_hashes(kem) = Err("ParentHashMismatch")

\* The figure-12 tree with its unmerged leaves, as returned and with parent 7
\* blanked
C24_Witness ==
    /\ kemlog.origin = "fig12" /\ Cardinality(non_empty_leaves(kem)) = 7
    /\ kemlog.blanked = 1 /\ is_blank(kem, 7)
    /\ NodeAt(kem, 3).unmerged_leaves = {3} /\ NodeAt(kem, 9).unmerged_leaves = {5}
    /\ NodeAt(kem, 11).unmerged_leaves = {5, 6}
    /\ NodeAt(kem, 11).parent_hash # ParentHash_empty
    /\ validate_parent_hashes(kem) = Err("ParentHashMismatch")

\* C25: update_parent_hashes with a received update path looks at the
\* sender's new leaf.  Where the parent hash of the leaf can be computed, a
\* Commit source with another hash gives ParentHashMismatch, a source that is
\* not Commit gives ParentHashNotFound, and the call returns Ok, with the
\* computed hash, only for a Commit source with the computed hash.
C25_SenderLeafChecked ==
    \A index \in non_empty_leaves(kem) : \A computed \in {parent_hash_for_leaf(kem, index).res} :
       computed.ok =>
          \A leaf_node \in PathLeaves(kem, index) :
             \A res \in {update_parent_hashes(kem, index, Some(ValidatedUpdatePath(leaf_node))).res} :
                /\ (leaf_node.leaf_node_source.kind = "Commit"
                      /\ leaf_node.leaf_node_source.parent_hash # Val(computed))
                   => res = Err("ParentHashMismatch")
                /\ leaf_node.leaf_node_source.kind # "Commit" => res = Err("ParentHashNotFound")
                /\ res.ok <=> leaf_node.leaf_node_source = CommitSource(Val(computed))
                /\ res.ok => Val(res) = Val(computed)

\* A tree with parents on the path of leaf 0, whose parent hash is not the
\* empty one: the path with that hash is accepted, the others are not.
C25_Witness ==
    /\ Built /\ 0 \in non_empty_leaves(kem) /\ PathNodes(kem, 0) # {}
    /\ \E computed \in {parent_hash_for_leaf(kem, 0).res} :
         /\ computed.ok /\ Val(computed) # ParentHash_empty
         /\ update_parent_hashes(kem, 0,
               Some(ValidatedUpdatePath(TreeLeaf("L", CommitSource(Val(computed)))))).res
              = Ok(Val(computed))
         /\ update_parent_hashes(kem, 0,
               Some(ValidatedUpdatePath(TreeLeaf("L", CommitSource(<<"f00d">>))))).res
              = Err("ParentHashMismatch")
         /\ update_parent_hashes(kem, 0,
               Some(ValidatedUpdatePath(TreeLeaf("L", KeyPackageSource)))).res
              = Err("ParentHashNotFound")

\* C27: update_parent_hashes of leaf L, where it returns Ok, leaves the
\* topmost parent of L's filtered direct path, the root when it is on the path,
\* with the empty parent hash, every parent of the path below it with
\* ParentHash(key of the next parent of the path above, that parent's parent
\* hash, original tree hash of that parent's co-path child), returns the
\* ParentHash of the lowest parent of the path, and changes nothing else; in
\* a tree of one leaf it returns the empty parent hash and changes nothing.
C27_HashesOnPath ==
    \A index \in non_empty_leaves(kem) :
      \A out \in {update_parent_hashes(kem, index, NoneV)} :
        \A path \in {filtered_direct_path_co_path(kem, index)} :
          out.res.ok =>
            /\ \A k \in DOMAIN path :
                  NodeAt(out.tree, path[k][1]).parent_hash =
                     IF k = Len(path) THEN ParentHash_empty
                     ELSE ParentHash_new(NodeAt(kem, path[k + 1][1]).public_key,
                                         NodeAt(out.tree, path[k + 1][1]).parent_hash,
                                         original_tree_hash(kem, path[k + 1][2]))
            /\ Root(total_leaf_count(kem)) \in PathNodes(kem, index)
                  => NodeAt(out.tree, Root(total_leaf_count(kem))).parent_hash = ParentHash_empty
            /\ Val(out.res) =
                  IF path = <<>> THEN ParentHash_empty
                  ELSE ParentHash_new(NodeAt(kem, path[1][1]).public_key,
                                      NodeAt(out.tree, path[1][1]).parent_hash,
                                      original_tree_hash(kem, path[1][2]))
            /\ \A x \in 0 .. (Len(kem) - 1) :
                  x \notin PathNodes(kem, index) => NodeAt(out.tree, x) = NodeAt(kem, x)
            /\ \A x \in PathNodes(kem, index) :
                  NodeAt(out.tree, x) = [NodeAt(kem, x) EXCEPT !.parent_hash = NodeAt(out.tree, x).parent_hash]
            /\ total_leaf_count(kem) = 1 => out = [res |-> Ok(ParentHash_empty), tree |-> kem]

\* A tree of three leaves with both parents on the path of leaf 0, where the
\* call leaves the root with the empty parent hash and gives parent 1 one
\* made from the root.
C27_Witness ==
    /\ Built /\ total_leaf_count(kem) = 4 /\ 0 \in non_empty_leaves(kem)
    /\ PathNodes(kem, 0) = {1, 3}
    /\ {1, 3} \subseteq non_empty_parents(kem)
    /\ \E out \in {update_parent_hashes(kem, 0, NoneV)} :
         /\ out.res.ok
         /\ NodeAt(out.tree, 3).parent_hash = ParentHash_empty
         /\ NodeAt(out.tree, 1).parent_hash # NodeAt(kem, 1).parent_hash
         /\ NodeAt(out.tree, 1).parent_hash # ParentHash_empty

OtherSuiteLeaves(g) ==
    {i \in OccupiedLeaves(g.public_tree) :
        NodeAt(g.public_tree, 2 * i).key_package.cipher_suite # g.cipher_suite}
\* The key packages a caller may hand to add_member_proposals
SuppliedKeyPackages ==
    {<<>>} \cup {<<KeyPackageFor(id, s)>> : id \in Members, s \in CipherSuites}
           \cup {<<KeyPackageFor(a, s), KeyPackageFor(b, t)>>
                   : a \in Members, b \in Members, s \in CipherSuites, t \in CipherSuites}

\* C28: an Add of a key package of another cipher suite is rejected:
\* add_member_proposals returns CipherSuiteMismatch, and no proposals, if any
\* key package handed to it has another cipher suite, and no member's tree
\* ever holds a leaf from a commit with such an Add, by value or by reference.
C28_OtherSuiteRejected ==
    \A m \in ActiveMembers :
      /\ \A key_packages \in SuppliedKeyPackages :
           add_member_proposals(G(m), key_packages) =
              IF \E k \in DOMAIN key_packages : key_packages[k].cipher_suite # GroupSuite
              THEN Err("CipherSuiteMismatch")
              ELSE Ok([k \in DOMAIN key_packages |-> AddProposal(key_packages[k])])
      /\ OtherSuiteLeaves(G(m)) = {}

\* A commit that resolves to an Add of a key package of the other cipher
\* suite has been sent, and a member has processed it.
C28_Witness ==
    \E m \in ActiveMembers : \E q \in SentPlaintexts :
      /\ q.content.type = "commit"
      /\ q \in applied[m]
      /\ \E k \in DOMAIN q.content.commit.proposals :
           \E p \in {q.content.commit.proposals[k]} :
             p.inline /\ is_add(p.proposal) /\ p.proposal.key_package.cipher_suite # GroupSuite

\* The proposals of a commit with their senders, a reference resolved to the
\* proposal whose plaintext it is the hash of
ResolvedProposals(q) ==
    [k \in DOMAIN q.content.commit.proposals |->
       Only({ IF p.inline THEN PendingProposal(p.proposal, q.sender)
              ELSE PendingProposal(p.id[2].content.proposal, p.id[2].sender)
             : p \in {q.content.commit.proposals[k]}})]
\* Two Updates of one leaf, an Update and a Remove of one leaf, or two Adds
\* of one key package
Conflicting(list) ==
    \E i \in DOMAIN list : \E j \in DOMAIN list :
       \/ /\ i < j /\ is_update(list[i].proposal) /\ is_update(list[j].proposal)
          /\ list[i].sender = list[j].sender
       \/ /\ is_update(list[i].proposal) /\ is_remove(list[j].proposal)
          /\ list[j].proposal.to_remove = list[i].sender
       \/ /\ i < j /\ is_add(list[i].proposal) /\ is_add(list[j].proposal)
          /\ list[i].proposal.key_package = list[j].proposal.key_package

\* C29: a commit whose resolved proposals conflict is rejected: commit_proposals
\* returns no commit for such a list, and no member installs such a commit
\* (its tree and epoch stay as they are).
C29_ConflictsRejected ==
    /\ IsSome(pending) => ~Conflicting(ResolvedProposals(Get(pending).commit.plaintext))
    /\ \A m \in Members : \A q \in applied[m] : ~Conflicting(ResolvedProposals(q))

\* A member has installed a commit that holds its own Update, by reference,
\* and the Remove of its leaf.
C29_Witness ==
    \E m \in ActiveMembers : \E q \in applied[m] :
      \E list \in {ResolvedProposals(q)} :
        \E i \in DOMAIN list : \E j \in DOMAIN list :
          /\ is_update(list[i].proposal) /\ is_remove(list[j].proposal)
          /\ list[j].proposal.to_remove = list[i].sender
          /\ ~q.content.commit.proposals[i].inline
          /\ G(m).context.epoch = q.epoch + 1
          /\ list[i].sender \in OccupiedLeaves(G(m).public_tree)

\* The confirmation tag of the epoch that a joiner derives from a joiner
\* secret and the GroupInfo of a Welcome
JoinerTag(joiner_secret, group_info) ==
    Hmac(EpochKeySchedule_new_joiner(joiner_secret, leaf_count(group_info.tree_hash[2]),
                                     GroupContext_from(group_info)).confirmation_key,
         group_info.confirmed_transcript_hash)

\* C30: commit_proposals returns a Welcome exactly when the commit adds a
\* leaf; the Welcome has one entry per added leaf, in their order, under the
\* hash of the leaf's key package and sealed to it, whose GroupSecrets hold
\* the joiner secret of the new epoch (it opens the GroupInfo and yields the
\* commit's confirmation tag) and a path secret exactly when the commit has a
\* path; encrypt_group_secrets with a path that shares no secret with the
\* leaf returns InvalidTreeKemPrivateKey.
C30_Welcome ==
    \A m \in ActiveMembers, update_path \in BOOLEAN, r \in Rand :
      \A order \in KeyOrders(G(m)) :
        \A proposals \in {<<>>} \cup {<<p>> : p \in InlineCandidates(G(m))} :
          \A res \in {commit_proposals(G(m), proposals, update_path, r, order, m)} :
            res.ok =>
              \A adds \in {AddsOf(Val(fetch_proposals(G(m), CommitProposalList(order, proposals),
                                                     G(m).private_tree.self_index)))} :
                /\ IsSome(Val(res).welcome) <=> adds # <<>>
                /\ IsSome(Val(res).update_path_data) <=> IsSome(Val(res).plaintext.content.commit.path)
                /\ IsSome(Val(res).welcome) =>
                     \A welcome \in {Get(Val(res).welcome)} :
                       /\ Len(welcome.secrets) = Len(adds)
                       /\ \A k \in DOMAIN welcome.secrets :
                            \A opened \in {HpkeOpen(welcome.secrets[k].encrypted_group_secrets,
                                                    KeyPackageGeneration(adds[k].id, adds[k].gen).secret_key)} :
                              /\ welcome.secrets[k].key_package_hash = Hash(adds[k])
                              /\ opened.ok
                              /\ WelcomeSecret_decrypt(
                                     WelcomeSecret_from_joiner_secret(Val(opened).joiner_secret),
                                     welcome.encrypted_group_info).ok
                              /\ Some(JoinerTag(Val(opened).joiner_secret, GroupInfoOf(welcome)))
                                    = Val(res).plaintext.confirmation_tag
                              /\ GroupInfoOf(welcome).epoch = G(m).context.epoch + 1
                              /\ IsSome(Val(opened).path_secret)
                                    <=> IsSome(Val(res).plaintext.content.commit.path)
                /\ \A leaf \in LeafIndices(G(m).public_tree) :
                     (/\ IsSome(Val(res).update_path_data)
                      /\ ~IsSome(get_common_path_secret(Get(Val(res).update_path_data),
                                                        G(m).public_tree, leaf)))
                       => encrypt_group_secrets(G(m), G(m).public_tree, leaf, <<"joiner">>,
                                                Val(res).update_path_data)
                            = Err("InvalidTreeKemPrivateKey")

\* A commit with an Add and a path has been built, with a Welcome whose one
\* entry holds a path secret, and one with an Add and no path can be built,
\* whose entry holds none.
C30_Witness ==
    /\ IsSome(pending)
    /\ \E pc \in {Get(pending).commit} :
         /\ IsSome(pc.welcome) /\ IsSome(pc.update_path_data)
         /\ Len(Get(pc.welcome).secrets) = 1
         /\ IsSome(Get(pc.welcome).secrets[1].encrypted_group_secrets.pt.path_secret)
    /\ \E m \in ActiveMembers, r \in Rand : \E p \in AddCandidates(G(m)) :
         \E res \in {commit_proposals(G(m), <<p>>, FALSE, r, <<>>, m)} :
           /\ res.ok /\ IsSome(Val(res).welcome)
           /\ ~IsSome(Get(Val(res).welcome).secrets[1].encrypted_group_secrets.pt.path_secret)

\* ============================================================ extension lists
\* One ExtensionList, as a key package or a group context holds it: callers
\* set extensions of the three types on it, one call after the other.
SetExtension(T, ext) ==
    /\ exts' = set_extension(exts, T, ext)
    /\ extlog' = [last |-> [extlog.last EXCEPT ![T] = Some(ext)], prev |-> exts, type |-> T]
    /\ UNCHANGED <<vars, storage, kemvars, concvars, lifevars, pskvars>>

ExtNext == \E T \in ExtensionTypes : \E ext \in ExtensionValues(T) : SetExtension(T, ext)

ExtSpec == Init /\ [][ExtNext]_<<vars, storage, kemvars, libvars>>

\* C31: an ExtensionList built by set_extension calls from the empty list is
\* a map keyed by the extension identifier: it holds at most one entry for
\* an identifier; a call for an identifier that was present kept the length
\* of the list and every other entry; and get_extension returns for each
\* type the value last set for it, or None when none was set.
C31_ListIsMap ==
    /\ \A i, j \in 1 .. Len(exts) : exts[i].extension_id = exts[j].extension_id => i = j
    /\ (/\ extlog.type # "none"
        /\ \E k \in 1 .. Len(extlog.prev) : extlog.prev[k].extension_id = IDENTIFIER(extlog.type))
       => /\ Len(exts) = Len(extlog.prev)
          /\ \A k \in 1 .. Len(exts) :
                 extlog.prev[k].extension_id # IDENTIFIER(extlog.type) => exts[k] = extlog.prev[k]
    /\ \A T \in ExtensionTypes : get_extension(exts, T) = Ok(extlog.last[T])

\* A list of three entries whose middle entry the last call replaced by a
\* different value
C31_Witness ==
    /\ Len(exts) = 3
    /\ extlog.type # "none"
    /\ Len(extlog.prev) = 3
    /\ extlog.prev[2].extension_id = IDENTIFIER(extlog.type)
    /\ extlog.prev[2] # exts[2]
    /\ get_extension(exts, extlog.type) = Ok(extlog.last[extlog.type])

\* ============================================================ lifetimes of key packages
\* life: the last LifetimeExt::days or LifetimeExt::years call, with its
\*   arguments and its outcome.
\* lifecheck: the last within_lifetime call on the lifetime that call
\*   returned.
Days(d, from) ==
    /\ \E out \in days(d, from) :
           life' = [call |-> "days", arg |-> d, from |-> from, out |-> out]
    /\ lifecheck' = NoLifetimeCheck
    /\ UNCHANGED <<vars, storage, kemvars, concvars, extvars, pskvars>>

Years(y, from) ==
    /\ \E out \in years(y, from) :
           life' = [call |-> "years", arg |-> y, from |-> from, out |-> out]
    /\ lifecheck' = NoLifetimeCheck
    /\ UNCHANGED <<vars, storage, kemvars, concvars, extvars, pskvars>>

WithinLifetime(system_time) ==
    /\ life.out.ok
    /\ lifecheck' = [time |-> system_time, out |-> within_lifetime(Val(life.out), system_time)]
    /\ UNCHANGED <<vars, storage, kemvars, concvars, extvars, pskvars, life>>

\* The times a lifetime is checked at: the given ones, its two ends, and the
\* second after its end
CheckTimes(self) ==
    SystemTimes \cup {SinceEpoch(secs) : secs \in {self.not_before, self.not_after, NumAdd(self.not_after, Num(1))}}

LifeNext ==
    \/ \E d \in DayCounts : \E from \in SystemTimes : Days(d, from)
    \/ \E y \in YearCounts : \E from \in SystemTimes : Years(y, from)
    \/ life.out.ok /\ \E system_time \in CheckTimes(Val(life.out)) : WithinLifetime(system_time)

LifeSpec == Init /\ [][LifeNext]_<<vars, storage, kemvars, libvars>>

\* C40: LifetimeExt::days(d, from) returns a lifetime of d * 86400 seconds
\* for every u32 d, and LifetimeExt::years(y, from) one of y * 365 * 86400
\* seconds for every u8 y, without overflow or wrap-around; and
\* within_lifetime(t) is true exactly when not_before <= t <= not_after.
C40_Lifetime ==
    /\ (life.call = "days" /\ ~life.from.before_epoch)
       => /\ life.out.ok
          /\ Val(life.out).not_after
               = NumAdd(Val(life.out).not_before, NumMul(life.arg, Num(86400)))
    /\ (life.call = "years" /\ ~life.from.before_epoch)
       => /\ life.out.ok
          /\ Val(life.out).not_after
               = NumAdd(Val(life.out).not_before, NumMul(life.arg, NumMul(Num(365), Num(86400))))
    /\ lifecheck.out.ok
       => Val(lifecheck.out) = (/\ NumLeq(Val(life.out).not_before, lifecheck.time.secs)
                                /\ NumLeq(lifecheck.time.secs, Val(life.out).not_after))

\* days(49711, from) has returned a lifetime of 63,104 seconds
\* (49711 * 86400 - 2^32), and a check one second after its end says that
\* the lifetime is over
C40_Witness ==
    /\ life.call = "days"
    /\ life.arg = Num(49711)
    /\ life.out.ok
    /\ Val(life.out).not_after = NumAdd(Val(life.out).not_before, Num(63104))
    /\ lifecheck.out.ok
    /\ lifecheck.time = SinceEpoch(NumAdd(Val(life.out).not_after, Num(1)))
    /\ Val(lifecheck.out) = FALSE

\* ------------------------------------------------- whose leaf an Update replaces
\* The proposal lists of a commit that member m may meet: the references of
\* its cache and at most one Update by value, in every order.
UpdateLists(m) ==
    UNION {Perms({Reference(h) : h \in DOMAIN G(m).proposals} \cup inl)
           : inl \in {{}} \cup {{InlineProposal(UpdateProposal(KeyPackage(id, 1)))} : id \in Members}}

\* The leaf an entry of a commit's list is sent from: the committer's for a
\* proposal by value, and for a reference the sender of the proposal
\* message that the reference is the hash of.
SentFrom(entry, committer) == IF entry.inline THEN committer ELSE entry.id[2].sender

\* The proposal of an entry
ProposalOf(entry) == IF entry.inline THEN entry.proposal ELSE entry.id[2].content.proposal

\* The places of the list's Updates sent from a leaf
UpdatesFrom(list, committer, leaf) ==
    {k \in 1 .. Len(list) : is_update(ProposalOf(list[k])) /\ SentFrom(list[k], committer) = leaf}

\* C32: an Update is applied to the leaf of the member that sent it: in the
\* provisional tree of a commit, whoever commits, a leaf holds the key
\* package of the last Update of the list sent from that leaf (by the
\* committer for an Update by value, by the sender of the proposal for one by
\* reference), and a leaf that no Update of the list was sent from holds what
\* it held.
C32_UpdateSendersLeaf ==
    \A m \in ActiveMembers : \A committer \in OccupiedLeaves(G(m).public_tree) :
       \A list \in UpdateLists(m) :
          \A res \in {apply_proposals(G(m), committer, list)} :
             res.ok =>
               \A leaf \in OccupiedLeaves(G(m).public_tree) :
                  \A ups \in {UpdatesFrom(list, committer, leaf)} :
                     get_key_package(Val(res).public_tree, leaf)
                       = IF ups = {}
                         THEN get_key_package(G(m).public_tree, leaf)
                         ELSE Ok(ProposalOf(list[CHOOSE k \in ups : \A j \in ups : j <= k]).key_package)

\* A member holds an Update that another member sent, and in the tree of its
\* own commit of the reference the other member's leaf has the Update's key
\* package while its own leaf is as it was.
C32_Witness ==
    \E m \in ActiveMembers : \E h \in DOMAIN G(m).proposals :
       \E own \in {G(m).private_tree.self_index} :
          /\ is_update(G(m).proposals[h].proposal)
          /\ h[2].sender # own
          /\ \E res \in {apply_proposals(G(m), own, <<Reference(h)>>)} :
                /\ res.ok
                /\ get_key_package(Val(res).public_tree, h[2].sender)
                     = Ok(h[2].content.proposal.key_package)
                /\ get_key_package(Val(res).public_tree, h[2].sender)
                     # get_key_package(G(m).public_tree, h[2].sender)
                /\ get_key_package(Val(res).public_tree, own) = get_key_package(G(m).public_tree, own)

\* ------------------------------------------------- the content type of a ciphertext
\* C33: the MLSCiphertext that encrypt_plaintext returns carries the content
\* type of the plaintext it encrypts, so that the receiver picks the ratchet
\* kind the sender took its key from (the application ratchet for
\* Application, the handshake ratchet otherwise).
C33_ContentTypeCarried ==
    \A s \in ActiveMembers : \A p \in Framable(s) : \A rnd \in Rand :
        p.epoch = G(s).context.epoch =>
          \A sealed \in {encrypt_plaintext(G(s), rnd, p)} :
             /\ sealed.ciphertext.content_type = ContentType(p.content)
             /\ KeyTypeOf(sealed.ciphertext.content_type) = KeyTypeOf(ContentType(p.content))

\* A member frames a commit of its epoch: the key comes from the handshake
\* ratchet, and the ciphertext says Application
C33_Witness ==
    \E s \in ActiveMembers : \E p \in Framable(s) :
        /\ p.content.type = "commit"
        /\ p.epoch = G(s).context.epoch
        /\ \E sealed \in {encrypt_plaintext(G(s), 1, p)} :
              /\ sealed.ciphertext.content_type = "application"
              /\ KeyTypeOf(sealed.ciphertext.content_type) = "application"
              /\ KeyTypeOf(ContentType(p.content)) = "handshake"
              /\ sealed.group.key_schedule # G(s).key_schedule

\* ============================================================ a growing group
\* The group with Adds up to MaxGrownLeaves leaves, committed by value with or
\* without an update path: the members that hold secret keys of parent nodes
\* meet commits without a path. The key packages added are the first and
\* the second of the identities other than the creator.
GrowingAdds(g) ==
    {AddProposal(KeyPackage(id, gen))
       : id \in {x \in Members \ {Creator} : leaf_count(g.public_tree) < MaxGrownLeaves},
         gen \in {0, 1}}

GrowNext ==
    \/ \E m \in ActiveMembers, update_path \in BOOLEAN, r \in Rand :
         \E order \in KeyOrders(G(m)) :
           \E proposals \in {<<>>} \cup {<<p>> : p \in GrowingAdds(G(m))} :
             CommitProposals(m, proposals, update_path, r, order) /\ UNCHANGED <<storage, kemvars, libvars>>
    \/ \E m \in ActiveMembers : \E q \in SentPlaintexts : ProcessPlaintext(m, q) /\ UNCHANGED <<storage, kemvars, libvars>>
    \/ \E m \in ActiveMembers : \E q \in PendingPlaintexts :
         ProcessPendingCommit(m, Get(pending).commit) /\ UNCHANGED <<storage, kemvars, libvars>>
    \/ \E m \in Members \ ActiveMembers : \E w \in SentWelcomes : \E t \in KnownTrees : Join(m, w, t) /\ UNCHANGED <<storage, kemvars, libvars>>

GrowSpec == Init /\ [][GrowNext]_vars

\* ------------------------------------------------- commits without a path
\* The commits a member may be given: the plaintexts sent, and its own
\* pending commit
CommitsFor(m) == {q \in SentPlaintexts : q.content.type = "commit"}

\* What the member's handlers make of a commit: process_plaintext, and
\* process_pending_commit for the member that built it
HandlerOutcomes(m, q) ==
    {process_plaintext(G(m), q)}
    \cup {process_pending_commit(G(m), Get(pending).commit)
            : x \in {y \in {m} : IsSome(pending) /\ Get(pending).by = y
                                   /\ Get(pending).commit.plaintext = q}}

\* C34: a member that processes a commit without an update path keeps its
\* private_tree exactly as it was, while its public tree, context, key
\* schedule and interim transcript hash become those of the new epoch.
C34_PrivateTreeKept ==
    \A m \in ActiveMembers : \A q \in CommitsFor(m) : \A out \in HandlerOutcomes(m, q) :
       (out.res.ok /\ ~IsSome(q.content.commit.path)) =>
          /\ out.group.private_tree = G(m).private_tree
          /\ out.group.context.epoch = G(m).context.epoch + 1
          /\ out.group.context.tree_hash = tree_hash(out.group.public_tree)
          /\ out.group.public_tree
               = Val(apply_proposals(G(m), q.sender, q.content.commit.proposals)).public_tree
          /\ out.group.public_tree # G(m).public_tree
          /\ out.group.key_schedule # G(m).key_schedule
          /\ out.group.interim_transcript_hash # G(m).interim_transcript_hash

\* A member that holds secret keys of parent nodes, from an update path,
\* processes a commit without a path that another member sent
C34_Witness ==
    \E m \in ActiveMembers : \E q \in CommitsFor(m) :
       /\ ~IsSome(q.content.commit.path)
       /\ q.sender # G(m).private_tree.self_index
       /\ \E k \in G(m).private_tree.secret_keys : k.node # 2 * G(m).private_tree.self_index
       /\ \E out \in {process_plaintext(G(m), q)} :
             /\ out.res.ok
             /\ out.group.private_tree = G(m).private_tree
             /\ out.group.context.epoch = G(m).context.epoch + 1

\* ============================================================ the PSK secret
\* pskstore: the secret store, by external id: the PSK is absent, present,
\*   or the lookup fails.
\* pskepochs: the same for the epochs of the epoch repository.
\* psklog: the last psk_secret call on them, with its outcome.
SetPsk(id, status) ==
    /\ pskstore[id] # status
    /\ pskstore' = [pskstore EXCEPT ![id] = status]
    /\ psklog' = NoPskCall
    /\ UNCHANGED <<vars, storage, kemvars, concvars, extvars, lifevars, pskepochs>>

SetPskEpoch(e, status) ==
    /\ pskepochs[e] # status
    /\ pskepochs' = [pskepochs EXCEPT ![e] = status]
    /\ psklog' = NoPskCall
    /\ UNCHANGED <<vars, storage, kemvars, concvars, extvars, lifevars, pskstore>>

PskSecretCall(cipher_suite, psk_ids) ==
    /\ psklog' = [cipher_suite |-> cipher_suite, psk_ids |-> psk_ids,
                  out |-> psk_secret(cipher_suite, pskstore, pskepochs, psk_ids)]
    /\ UNCHANGED <<vars, storage, kemvars, concvars, extvars, lifevars, pskstore, pskepochs>>

PskNext ==
    \/ \E id \in StoredPskIds, status \in {"absent", "present", "failing"} : SetPsk(id, status)
    \/ \E e \in PskEpochs, status \in {"absent", "present", "failing"} : SetPskEpoch(e, status)
    \/ \E cipher_suite \in {"P256", "P521"} : \E psk_ids \in PskLists :
          PskSecretCall(cipher_suite, psk_ids)

PskSpec == Init /\ [][PskNext]_<<vars, storage, kemvars, libvars>>

\* The places of a list whose id does not resolve to a PSK, among its first
\* three (the second id of a longer list never resolves)
Unresolved(psk_ids) ==
    {k \in 1 .. (IF Len(psk_ids) < 3 THEN Len(psk_ids) ELSE 3) :
        \/ psk_ids[k].type = "external"
           /\ (psk_ids[k].id \notin StoredPskIds \/ pskstore[psk_ids[k].id] # "present")
        \/ psk_ids[k].type = "resumption" /\ pskepochs[psk_ids[k].psk_epoch] # "present"}

\* C35: psk_secret takes the ids in list order and fails at the first that
\* does not resolve, returning no secret: NoPskForId(id) for an external id
\* that the store does not hold, EpochNotFound(e) for a resumption id whose
\* epoch is not available; a list of more than 65,535 ids is TooManyPskIds(n);
\* the empty list gives the all-zero secret of the KDF's extract size; and
\* the secret of a list depends on the order of its ids.
C35_PskSecret ==
    psklog.cipher_suite # "none" =>
      \A ids \in {psklog.psk_ids} : \A out \in {psklog.out} :
        /\ Len(ids) > 65535 => out = Err(<<"TooManyPskIds", Len(ids)>>)
        /\ (Len(ids) <= 65535 /\ Unresolved(ids) = {}) => out.ok
        /\ (Len(ids) <= 65535 /\ Unresolved(ids) # {}) =>
             \A k \in {j \in Unresolved(ids) : \A i \in Unresolved(ids) : j <= i} :
                /\ ~out.ok
                /\ (ids[k].type = "external"
                      /\ (ids[k].id \notin StoredPskIds \/ pskstore[ids[k].id] = "absent"))
                   => out = Err(<<"NoPskForId", ids[k].id>>)
                /\ (ids[k].type = "resumption" /\ pskepochs[ids[k].psk_epoch] = "absent")
                   => out = Err(<<"EpochNotFound", ids[k].psk_epoch>>)
        /\ ids = <<>> =>
             /\ out.ok
             /\ Len(Val(out)) = extract_size(psklog.cipher_suite)
             /\ \A k \in 1 .. Len(Val(out)) : Val(out)[k] = 0
        /\ (out.ok /\ Len(ids) = 2 /\ ids[1] # ids[2]) =>
             out # psk_secret(psklog.cipher_suite, pskstore, pskepochs, <<ids[2], ids[1]>>)

\* A call with two ids of which the first resolves and the second, an
\* external id, does not: the error names the second
C35_Witness ==
    /\ Len(psklog.psk_ids) = 2
    /\ Unresolved(psklog.psk_ids) = {2}
    /\ psklog.psk_ids[1].type = "resumption"
    /\ psklog.psk_ids[2].type = "external"
    /\ psklog.out = Err(<<"NoPskForId", psklog.psk_ids[2].id>>)

\* ------------------------------------------------- a pending commit and its epoch
\* The PendingCommits that member m can build in its current state
PendingCommitsOf(m) ==
    {Val(res) : res \in {r \in {commit_proposals(G(m), proposals, update_path, rnd, order, m)
                                  : update_path \in BOOLEAN, rnd \in Rand,
                                    order \in KeyOrders(G(m)),
                                    proposals \in {<<>>} \cup {<<p>> : p \in InlineCandidates(G(m))}}
                           : r.ok}}

\* The states member m can move to by one commit: another member's, by
\* process_plaintext, or the pending commit pc, by process_pending_commit
AdvancedBy(m, pc) ==
    {out.group : out \in {o \in {process_plaintext(G(m), q) : q \in CommitsFor(m)}
                                 \cup {process_pending_commit(G(m), pc)}
                            : o.res.ok}}

\* C36: a PendingCommit that commit_proposals built at epoch E is for epoch
\* E, and once the member's group has advanced, by this commit or by another
\* member's commit for epoch E, process_pending_commit on it fails with
\* InvalidPlaintextEpoch and leaves the group as it is; so a member applies
\* at most one of the commits built for an epoch.
C36_PendingCommitEpoch ==
    /\ \A m \in ActiveMembers : \A pc \in PendingCommitsOf(m) :
          /\ pc.plaintext.epoch = G(m).context.epoch
          /\ \A g \in AdvancedBy(m, pc) :
                /\ g.context.epoch = G(m).context.epoch + 1
                /\ process_pending_commit(g, pc) = Outcome(Err("InvalidPlaintextEpoch"), g)
    /\ \A m \in ActiveMembers :
          (IsSome(pending) /\ Get(pending).by = m
             /\ Get(pending).commit.plaintext.epoch # G(m).context.epoch)
          => process_pending_commit(G(m), Get(pending).commit)
               = Outcome(Err("InvalidPlaintextEpoch"), G(m))
    /\ \A m \in Members : \A q1, q2 \in applied[m] : q1.epoch = q2.epoch => q1 = q2

\* A member that can apply a commit of its own for its epoch, and that,
\* having processed another member's commit for that epoch instead, gets
\* InvalidPlaintextEpoch for its own
C36_Witness ==
    \E m \in ActiveMembers : \E pc \in PendingCommitsOf(m) : \E q \in CommitsFor(m) :
       /\ q.sender # G(m).private_tree.self_index
       /\ q.epoch = pc.plaintext.epoch
       /\ process_pending_commit(G(m), pc).res.ok
       /\ \E out \in {process_plaintext(G(m), q)} :
             /\ out.res.ok
             /\ process_pending_commit(out.group, pc)
                  = Outcome(Err("InvalidPlaintextEpoch"), out.group)

\* ------------------------------------------------- a failed check of the parent hash
\* C37: when update_parent_hashes returns ParentHashMismatch or
\* ParentHashNotFound, the tree it was called on is unchanged: every parent
\* node has the parent_hash it had before the call.
C37_FailedCheckKeepsTree ==
    \A index \in non_empty_leaves(kem) :
       \A leaf_node \in PathLeaves(kem, index) :
          \A out \in {update_parent_hashes(kem, index, Some(ValidatedUpdatePath(leaf_node)))} :
             out.res \in {Err("ParentHashMismatch"), Err("ParentHashNotFound")} =>
                /\ Len(out.tree) = Len(kem)
                /\ \A x \in non_empty_parents(kem) :
                      out.tree[x + 1].parent_hash = kem[x + 1].parent_hash

\* A call that returns ParentHashNotFound, the update path's leaf not being
\* from a commit, on a tree of which it has rewritten a parent hash
C37_Witness ==
    \E index \in non_empty_leaves(kem) : \E leaf_node \in PathLeaves(kem, index) :
       \E out \in {update_parent_hashes(kem, index, Some(ValidatedUpdatePath(leaf_node)))} :
          /\ out.res = Err("ParentHashNotFound")
          /\ \E x \in non_empty_parents(kem) :
                out.tree[x + 1].parent_hash # kem[x + 1].parent_hash

\* ------------------------------------------------- the walks of validate_parent_hashes end
\* The nodes a walk may stand at: the non-blank leaves and parents below the
\* root
WalkNodes(tree) ==
    ({2 * i : i \in non_empty_leaves(tree)} \cup non_empty_parents(tree))
    \ {Root(total_leaf_count(tree))}

\* C38: validate_parent_hashes terminates: an iteration of the walk from a
\* non-blank node either returns or goes on at a non-blank ancestor that is
\* strictly higher, with one node less to validate, so the walk from a leaf
\* ends within as many iterations as the root has levels, as the chain of
\* the function does, also when the ancestors are blank up to the root.
C38_WalkEnds ==
    /\ \A n \in WalkNodes(kem) : \A nodes_to_validate \in SUBSET non_empty_parents(kem) :
          \A step \in {ChainStep(kem, n, nodes_to_validate)} :
             step.next = "continue" =>
                /\ Level(step.n) > Level(n)
                /\ step.n \in non_empty_parents(kem)
                /\ \E k \in DOMAIN DirectPath(n, total_leaf_count(kem)) :
                      DirectPath(n, total_leaf_count(kem))[k] = step.n
                /\ step.n \in nodes_to_validate
                /\ step.nodes_to_validate = nodes_to_validate \ {step.n}
    /\ \A i \in non_empty_leaves(kem) :
          \A walk \in {Walk(kem, 2 * i, non_empty_parents(kem),
                            Level(Root(total_leaf_count(kem))))} :
             /\ IsSome(walk)
             /\ Get(walk) = Chain(kem, 2 * i, non_empty_parents(kem))

\* A tree of four leaf slots with a blank root: the walk from one leaf goes
\* on at a non-blank ancestor and returns there, all ancestors above being
\* blank, and the walk from another leaf returns at once for the same reason
C38_Witness ==
    /\ total_leaf_count(kem) = 4
    /\ is_blank(kem, Root(total_leaf_count(kem)))
    /\ \E i \in non_empty_leaves(kem) : \E step \in {ChainStep(kem, 2 * i, non_empty_parents(kem))} :
          /\ step.next = "continue"
          /\ ~IsSome(LinkOf(kem, step.n))
          /\ ChainStep(kem, step.n, step.nodes_to_validate).next = "return"
    /\ \E i \in non_empty_leaves(kem) :
          /\ ~IsSome(LinkOf(kem, 2 * i))
          /\ ChainStep(kem, 2 * i, non_empty_parents(kem)).next = "return"

\* ------------------------------------ storage calls on the shared connection
\* GroupStateStorage::epoch
epoch(db, group_id, epoch_id) ==
    Only({ IF ~IsSome(data) THEN Ok(NoneV)
           ELSE Only({ IF value.ok THEN Ok(Some(Val(value))) ELSE value
                      : value \in {Deserialize(Get(data))}})
          : data \in {get_epoch_data(db, group_id, epoch_id)}})
\* SqLiteGroupStateStorage::group_ids: the ids of the rows of mls_group
group_ids(db) == Ok({g \in GroupIds : IsSome(db.mls_group[g])})

\* The writes that the handles make: two epochs for g1; a change of g1 that
\* prunes; a write for g2 whose second record does not serialize.
ConcurrentWrites ==
    << [state |-> [id |-> "g1", body |-> "x", serializable |-> TRUE],
        epoch_inserts |-> << [id |-> 0, body |-> "x", serializable |-> TRUE],
                             [id |-> 1, body |-> "x", serializable |-> TRUE] >>,
        epoch_updates |-> <<>>,
        delete_epoch_under |-> NoneV],
       [state |-> [id |-> "g1", body |-> "y", serializable |-> TRUE],
        epoch_inserts |-> <<>>,
        epoch_updates |-> << [id |-> 1, body |-> "y", serializable |-> TRUE] >>,
        delete_epoch_under |-> Some(1)],
       [state |-> [id |-> "g2", body |-> "x", serializable |-> TRUE],
        epoch_inserts |-> << [id |-> 1, body |-> "x", serializable |-> TRUE],
                             [id |-> 0, body |-> "x", serializable |-> FALSE] >>,
        epoch_updates |-> <<>>,
        delete_epoch_under |-> NoneV] >>
StorageCalls ==
    {StorageCall("write", n, ConcurrentWrites[n].state.id, 0) : n \in DOMAIN ConcurrentWrites}
    \cup {StorageCall("state", 0, "g1", 0), StorageCall("max_epoch_id", 0, "g1", 0),
          StorageCall("group_ids", 0, "g1", 0)}
    \cup {StorageCall("epoch", 0, "g1", epoch_id) : epoch_id \in EpochIds}

\* What a read returns from the database it is run on
Read(call, db) ==
    CASE call.op = "state" -> state_of(db, call.group_id)
      [] call.op = "epoch" -> epoch(db, call.group_id, call.epoch_id)
      [] call.op = "max_epoch_id" -> max_epoch_id(db, call.group_id)
      [] call.op = "group_ids" -> group_ids(db)

\* update_group_state as the statements it runs under the guard, in order
Script(w) ==
    << [stmt |-> "transaction", item |-> Ok(<<>>)],
       [stmt |-> "upsert", item |-> Serialize(w.state)] >>
    \o [i \in 1 .. Len(w.epoch_inserts) |->
          [stmt |-> "insert", item |-> StoredEpochs(w.epoch_inserts)[i]]]
    \o [i \in 1 .. Len(w.epoch_updates) |->
          [stmt |-> "update", item |-> StoredEpochs(w.epoch_updates)[i]]]
    \o (IF IsSome(w.delete_epoch_under)
        THEN << [stmt |-> "delete", item |-> Ok(Get(w.delete_epoch_under))] >> ELSE <<>>)
    \o << [stmt |-> "commit", item |-> Ok(<<>>)] >>

\* One statement on the connection: its result and the connection afterwards.
\* The connection holds one transaction at a time; without one a statement
\* takes effect at once.
Run(c, group_id, s) ==
    CASE s.stmt = "transaction" ->
           IF IsSome(c.tx) THEN [res |-> Err("SqlEngineError"), conn |-> c]
           ELSE [res |-> Ok(<<>>), conn |-> [c EXCEPT !.tx = Some(c.db)]]
      [] s.stmt = "upsert" ->
           [res |-> Ok(<<>>), conn |-> Changed(c, UpsertSnapshot(View(c), group_id, Val(s.item)))]
      [] s.stmt = "insert" ->
           IF ~s.item.ok THEN [res |-> Err("SqlEngineError"), conn |-> c]
           ELSE Only({ IF done.ok THEN [res |-> Ok(<<>>), conn |-> Changed(c, Val(done))]
                       ELSE [res |-> done, conn |-> c]
                      : done \in {InsertEpoch(View(c), group_id, Val(s.item), "none")}})
      [] s.stmt = "update" ->
           IF ~s.item.ok THEN [res |-> Err("SqlEngineError"), conn |-> c]
           ELSE Only({ IF done.ok THEN [res |-> Ok(<<>>), conn |-> Changed(c, Val(done))]
                       ELSE [res |-> done, conn |-> c]
                      : done \in {UpdateEpoch(View(c), group_id, Val(s.item), "none")}})
      [] s.stmt = "delete" ->
           [res |-> Ok(<<>>), conn |-> Changed(c, DeleteEpochsUnder(View(c), group_id, Val(s.item)))]
      [] s.stmt = "commit" ->
           IF IsSome(c.tx) THEN [res |-> Ok(<<>>), conn |-> [c EXCEPT !.db = Get(c.tx), !.tx = NoneV]]
           ELSE [res |-> Err("SqlEngineError"), conn |-> c]

\* A handle is called: write serializes the group state before anything else.
Call(t, call) ==
    /\ thr[t].pc = "idle"
    /\ thr[t].calls < MaxCalls
    /\ thr' = [thr EXCEPT ![t] =
                 [call |-> call,
                  pc |-> IF call.op = "write" /\ ~Serialize(ConcurrentWrites[call.n].state).ok
                         THEN "idle" ELSE "lock",
                  k |-> 0,
                  out |-> IF call.op = "write" THEN Serialize(ConcurrentWrites[call.n].state) ELSE Ok(<<>>),
                  at |-> Len(commits),
                  met |-> IsSome(conn.tx),
                  calls |-> @.calls + 1]]
    /\ UNCHANGED <<conn, commits>>
    /\ UNCHANGED <<vars, storage, kemvars, extvars, lifevars, pskvars>>

\* let connection = self.connection.lock().unwrap()
Lock(t) ==
    /\ thr[t].pc = "lock"
    /\ lock(conn)
    /\ conn' = [conn EXCEPT !.owner = Some(t)]
    /\ thr' = [thr EXCEPT ![t].pc = "run", ![t].k = 1]
    /\ UNCHANGED commits
    /\ UNCHANGED <<vars, storage, kemvars, extvars, lifevars, pskvars>>

\* The next statement of update_group_state.  A statement that fails ends the
\* call: the transaction is dropped, which rolls it back, and so is the guard.
\* The commit ends the call as well.
Statement(t) ==
    /\ thr[t].pc = "run"
    /\ thr[t].call.op = "write"
    /\ \E script \in {Script(ConcurrentWrites[thr[t].call.n])} :
       \E ran \in {Run(conn, thr[t].call.group_id, script[thr[t].k])} :
          IF ~ran.res.ok
          THEN /\ conn' = [ran.conn EXCEPT !.owner = NoneV,
                                           !.tx = IF thr[t].k > 1 THEN NoneV ELSE @]
               /\ thr' = [thr EXCEPT ![t].pc = "idle", ![t].out = ran.res,
                                     ![t].at = Len(commits)]
               /\ UNCHANGED commits
          ELSE IF thr[t].k = Len(script)
          THEN /\ conn' = [ran.conn EXCEPT !.owner = NoneV]
               /\ commits' = Append(commits, [by |-> t, n |-> thr[t].call.n, met |-> thr[t].met,
                                              db |-> ran.conn.db])
               /\ thr' = [thr EXCEPT ![t].pc = "idle", ![t].out = Ok(<<>>),
                                     ![t].at = Len(commits) + 1]
          ELSE /\ conn' = ran.conn
               /\ thr' = [thr EXCEPT ![t].k = @ + 1]
               /\ UNCHANGED commits
    /\ UNCHANGED <<vars, storage, kemvars, extvars, lifevars, pskvars>>

\* The query of state, epoch, max_epoch_id or group_ids, and the end of the call
Query(t) ==
    /\ thr[t].pc = "run"
    /\ thr[t].call.op # "write"
    /\ conn' = [conn EXCEPT !.owner = NoneV]
    /\ thr' = [thr EXCEPT ![t].pc = "idle", ![t].out = Read(thr[t].call, View(conn)),
                          ![t].at = Len(commits)]
    /\ UNCHANGED commits
    /\ UNCHANGED <<vars, storage, kemvars, extvars, lifevars, pskvars>>

ConcNext ==
    \E t \in Handles :
       \/ \E call \in StorageCalls : Call(t, call)
       \/ Lock(t)
       \/ Statement(t)
       \/ Query(t)

ConcSpec == Init /\ [][ConcNext]_<<vars, storage, kemvars, libvars>>

\* The database after the first k committed transactions
DbAt(k) == IF k = 0 THEN EmptyDb ELSE commits[k].db
Returned(t) == thr[t].pc = "idle" /\ thr[t].calls > 0

\* C39: handles that share one connection serialize their calls.  A read
\* returns what it would return from the database as some number of whole
\* transactions have left it; the committed database is always the one the
\* last committed transaction left; each committed transaction is the whole
\* write applied to the database its predecessor left; and a write that
\* returns an error leaves nothing.
C39_HandlesSerialize ==
    /\ conn.db = DbAt(Len(commits))
    /\ \A k \in 1 .. Len(commits) :
          \E w \in {ConcurrentWrites[commits[k].n]} :
             write(DbAt(k - 1), w.state, w.epoch_inserts, w.epoch_updates,
                   w.delete_epoch_under, "none")
               = [res |-> Ok(<<>>), db |-> commits[k].db]
    /\ \A t \in Handles :
          Returned(t) =>
            IF thr[t].call.op = "write"
            THEN \E w \in {ConcurrentWrites[thr[t].call.n]} :
                   thr[t].out = write(DbAt(IF thr[t].out.ok THEN thr[t].at - 1 ELSE thr[t].at),
                                      w.state, w.epoch_inserts, w.epoch_updates,
                                      w.delete_epoch_under, "none").res
            ELSE thr[t].out = Read(thr[t].call, DbAt(thr[t].at))
\* Two handles committed one after the other, the second having been called
\* while the first one's transaction was open, and a handle's read that was
\* called while the second transaction was open returned its whole effect.
C39_Witness ==
    /\ Len(commits) = 2
    /\ commits[1].by # commits[2].by
    /\ commits[2].met
    /\ \E t \in Handles :
          /\ Returned(t)
          /\ thr[t].call.op # "write"
          /\ thr[t].met
          /\ thr[t].at = 2
          /\ commits[2].by # t
          /\ thr[t].out # Read(thr[t].call, DbAt(1))

============================================================================
